---- MODULE Spec2Model ----
(***************************************************************************)
(* Mini-Waterways: the route network (RouteNetwork.ts), the transit line   *)
(* (TransitLine.ts) and the queries made on them.                          *)
(*                                                                         *)
(* A tile key is the pair <<x, y>> (the source builds the string "x,y"),   *)
(* a Set<string> of connections is a duplicate-free sequence in insertion  *)
(* order, and the tiles Map is a function whose domain is the set of keys  *)
(* present.                                                                *)
(***************************************************************************)
EXTENDS Integers, Sequences, FiniteSets, TLC

\* ---------------------------------------------------------------- bounds
GridW == 3          \* columns of the strip of cells the inputs are drawn from
MaxTiles == 4       \* tiles present at once (guards addTile in the model)
MaxStops == 3       \* stops on the line (guards addPort in the model)

\* ------------------------------------------------------ program constants
gridSize == 50

DefaultColor == "#3498db"
AltColor == "#e74c3c"

\* --------------------------------------------------------------- inputs
Xs == {i * gridSize : i \in 0..(GridW - 1)}
Ys == {0, gridSize}                  \* the strip is two cells high
Coords == Xs \X Ys

\* (color, isPortTile) arguments of addTile
AddInputs ==
  { [color |-> DefaultColor, isPortTile |-> FALSE],
    [color |-> AltColor, isPortTile |-> TRUE] }

\* the stations a line can visit; a station is identified by its position
Stations == { <<0, 0>>, <<(GridW - 1) * gridSize, 0>>, <<gridSize, gridSize>> }

VARIABLES
  tiles,      \* RouteNetwork.tiles : key -> RouteTile
  ports,      \* TransitLine.ports : the ordered stop list
  last,       \* the call just made and what it returned, until consumed
  lineObs,    \* the most recent TransitLine.isValid() results
  maxBoats,   \* TransitLine.maxBoats
  boats,      \* TransitLine.boats, or the one Boat built directly
  hist,       \* how many swapDestination calls a touring boat has had, modulo the stops
  score,      \* Start.score : passengers delivered
  scenePorts, \* Start.ports : position -> Port (its type, its waiting passengers, its overflow timer)
  isGameOver, \* Start.isGameOver
  gameTime    \* Start.gameTime : the milliseconds played

vars == <<tiles, ports, last, lineObs, maxBoats, boats, hist, score, scenePorts,
         isGameOver, gameTime>>

\* ------------------------------------------------------------- helpers
Range(s) == {s[i] : i \in 1..Len(s)}

\* Set.prototype.add on an insertion-ordered set
SetAdd(s, k) == IF k \in Range(s) THEN s ELSE Append(s, k)

\* Set.prototype.delete on an insertion-ordered set
SetDelete(s, k) == SelectSeq(s, LAMBDA e : e # k)

getKey(x, y) == <<x, y>>

parseKey(key) == [x |-> key[1], y |-> key[2]]

\* ------------------------------------------------- RouteNetwork.addTile
directionsDiag ==
  << [dx |-> 1, dy |-> 0], [dx |-> -1, dy |-> 0],
     [dx |-> 0, dy |-> 1], [dx |-> 1, dy |-> -1] >>

directions ==
  << [dx |-> 1, dy |-> 0],     \* Right
     [dx |-> -1, dy |-> 0],    \* Left
     [dx |-> 0, dy |-> 1],     \* Down
     [dx |-> 0, dy |-> -1] >>  \* Up

connectOneWay(ts, key, neighborKey) ==
  [ts EXCEPT ![key].connections = SetAdd(@, neighborKey)]

\* "Connect both ways"
connect(ts, key, neighborKey) ==
  [ts EXCEPT ![key].connections = SetAdd(@, neighborKey),
             ![neighborKey].connections = SetAdd(@, key)]

RECURSIVE connectFrom(_, _, _, _)
connectFrom(ts, x, y, i) ==
  IF i > Len(directions) THEN ts
  ELSE LET nx == x + directions[i].dx * gridSize
           ny == y + directions[i].dy * gridSize
           neighborKey == getKey(nx, ny)
       IN connectFrom(IF neighborKey \in DOMAIN ts
                        THEN connect(ts, getKey(x, y), neighborKey)
                        ELSE ts,
                      x, y, i + 1)

updateConnections(ts, x, y) ==
  IF getKey(x, y) \notin DOMAIN ts THEN ts ELSE connectFrom(ts, x, y, 1)

newTile(x, y, color, isPortTile) ==
  [x |-> x, y |-> y, color |-> color, connections |-> <<>>, isPortTile |-> isPortTile]

addTileOverwrite(ts, x, y, color, isPortTile) ==
  updateConnections(
    [k \in (DOMAIN ts) \cup {getKey(x, y)} |->
       IF k = getKey(x, y) THEN newTile(x, y, color, isPortTile) ELSE ts[k]],
    x, y)

addTile(ts, x, y, color, isPortTile) ==
  IF getKey(x, y) \notin DOMAIN ts
    THEN updateConnections(
           [k \in (DOMAIN ts) \cup {getKey(x, y)} |->
              IF k = getKey(x, y) THEN newTile(x, y, color, isPortTile) ELSE ts[k]],
           x, y)
    ELSE ts

\* ---------------------------------------------- RouteNetwork.removeTile
RECURSIVE disconnectFrom(_, _, _, _)
disconnectFrom(ts, key, conns, i) ==
  IF i > Len(conns) THEN ts
  ELSE disconnectFrom(IF conns[i] \in DOMAIN ts
                        THEN [ts EXCEPT ![conns[i]].connections = SetDelete(@, key)]
                        ELSE ts,
                      key, conns, i + 1)

dropTile(ts, key) == [k \in (DOMAIN ts) \ {key} |-> ts[k]]

\* removeTile returns [ret, tiles]: the boolean result and the tiles map after
removeTileAnyKind(ts, x, y) ==
  LET key == getKey(x, y) IN
  IF key \in DOMAIN ts
    THEN [ret |-> TRUE,
          tiles |-> dropTile(disconnectFrom(ts, key, ts[key].connections, 1), key)]
    ELSE [ret |-> FALSE, tiles |-> ts]

removeTileKeepEdges(ts, x, y) ==
  LET key == getKey(x, y) IN
  IF key \in DOMAIN ts /\ ts[key].isPortTile THEN [ret |-> FALSE, tiles |-> ts]
  ELSE IF key \in DOMAIN ts
    THEN [ret |-> TRUE, tiles |-> dropTile(ts, key)]
    ELSE [ret |-> FALSE, tiles |-> ts]

removeTile(ts, x, y) ==
  LET key == getKey(x, y) IN
  IF key \in DOMAIN ts /\ ts[key].isPortTile THEN [ret |-> FALSE, tiles |-> ts]
  ELSE IF key \in DOMAIN ts
    THEN [ret |-> TRUE,
          tiles |-> dropTile(disconnectFrom(ts, key, ts[key].connections, 1), key)]
    ELSE [ret |-> FALSE, tiles |-> ts]

hasTile(ts, x, y) == getKey(x, y) \in DOMAIN ts

\* ------------------------------------------------ RouteNetwork.findPath
\* a findPath result: null, or the array of points
Null == [found |-> FALSE, path |-> <<>>]
Found(path) == [found |-> TRUE, path |-> path]

Point(key) == [x |-> parseKey(key).x, y |-> parseKey(key).y]

\* "Reconstruct path": unshift each node while walking the parent map back
RECURSIVE walkBack(_, _, _, _)
walkBack(parent, startKey, node, path) ==
  IF node # startKey
    THEN walkBack(parent, startKey, parent[node], <<Point(node)>> \o path)
    ELSE path

reconstructNoStart(parent, startKey, endKey) ==
  walkBack(parent, startKey, endKey, <<>>)

reconstruct(parent, startKey, endKey) ==
  <<Point(startKey)>> \o walkBack(parent, startKey, endKey, <<>>)

\* the parent map stands in for the visited set: the start has no parent
RECURSIVE expandByParent(_, _, _, _)
expandByParent(conns, i, current, st) ==
  IF i > Len(conns) THEN st
  ELSE expandByParent(conns, i + 1, current,
                      IF conns[i] \notin DOMAIN st.parent
                        THEN [queue |-> Append(st.queue, conns[i]),
                              visited |-> st.visited \cup {conns[i]},
                              parent |-> (conns[i] :> current) @@ st.parent]
                        ELSE st)

\* the for-loop over tile.connections: visit, set parent, enqueue
RECURSIVE expand(_, _, _, _)
expand(conns, i, current, st) ==
  IF i > Len(conns) THEN st
  ELSE expand(conns, i + 1, current,
              IF conns[i] \notin st.visited
                THEN [queue |-> Append(st.queue, conns[i]),
                      visited |-> st.visited \cup {conns[i]},
                      parent |-> (conns[i] :> current) @@ st.parent]
                ELSE st)

\* queue.shift()
shiftLast(queue) ==
  [current |-> queue[Len(queue)], rest |-> SubSeq(queue, 1, Len(queue) - 1)]

shift(queue) == [current |-> Head(queue), rest |-> Tail(queue)]

\* a depth-first search: takes the newest entry and marks a tile when it is taken
RECURSIVE expandUnmarked(_, _, _, _)
expandUnmarked(conns, i, current, st) ==
  IF i > Len(conns) THEN st
  ELSE expandUnmarked(conns, i + 1, current,
                      IF conns[i] \notin st.visited
                        THEN [st EXCEPT !.queue = Append(@, conns[i]),
                                        !.parent = (conns[i] :> current) @@ @]
                        ELSE st)

RECURSIVE dfs(_, _, _, _)
dfs(ts, startKey, endKey, st) ==
  IF st.queue = <<>> THEN Null
  ELSE LET current == shiftLast(st.queue).current
           popped == [st EXCEPT !.queue = shiftLast(st.queue).rest,
                                !.visited = @ \cup {current}]
       IN IF current = endKey
            THEN Found(reconstruct(st.parent, startKey, endKey))
            ELSE IF current \notin DOMAIN ts \/ current \in st.visited \ {startKey}
              THEN dfs(ts, startKey, endKey, popped)
              ELSE dfs(ts, startKey, endKey,
                       expandUnmarked(ts[current].connections, 1, current, popped))

\* the while-loop of the search
RECURSIVE bfs(_, _, _, _)
bfs(ts, startKey, endKey, st) ==
  IF st.queue = <<>> THEN Null
  ELSE LET current == shift(st.queue).current
           popped == [st EXCEPT !.queue = shift(st.queue).rest]
       IN IF current = endKey
            THEN Found(reconstruct(st.parent, startKey, endKey))
            ELSE IF current \notin DOMAIN ts
              THEN bfs(ts, startKey, endKey, popped)
              ELSE bfs(ts, startKey, endKey,
                       expand(ts[current].connections, 1, current, popped))

searchFrom(ts, startKey, endKey) ==
  bfs(ts, startKey, endKey,
      [queue |-> <<startKey>>, visited |-> {startKey}, parent |-> <<>>])

findPathNoCheck(ts, startX, startY, endX, endY) ==
  searchFrom(ts, getKey(startX, startY), getKey(endX, endY))

findPath(ts, startX, startY, endX, endY) ==
  LET startKey == getKey(startX, startY)
      endKey == getKey(endX, endY)
  IN IF startKey \notin DOMAIN ts \/ endKey \notin DOMAIN ts
       THEN Null
       ELSE searchFrom(ts, startKey, endKey)

areConnected(ts, startX, startY, endX, endY) ==
  findPath(ts, startX, startY, endX, endY) # Null

\* ---------------------------------------------------- TransitLine.isValid
\* Port.getPosition() of a stop: a station is identified by its position
getPosition(port) == [x |-> port[1], y |-> port[2]]

\* the for-loop over consecutive ports, with its early return
RECURSIVE consecutiveConnected(_, _, _, _)
consecutiveConnected(ts, ps, i, bound) ==
  IF ~(i < bound) THEN TRUE
  ELSE LET port1 == getPosition(ps[i + 1])
           port2 == getPosition(ps[i + 2])
       IN IF ~areConnected(ts, port1.x, port1.y, port2.x, port2.y)
            THEN FALSE
            ELSE consecutiveConnected(ts, ps, i + 1, bound)

wrapConnected(ts, ps) ==
  LET firstPort == getPosition(ps[1])
      lastPort == getPosition(ps[Len(ps)])
  IN areConnected(ts, lastPort.x, lastPort.y, firstPort.x, firstPort.y)

isValidShortLoop(ts, ps) ==
  IF Len(ps) < 2 THEN FALSE
  ELSE IF ~consecutiveConnected(ts, ps, 0, Len(ps) - 2) THEN FALSE
  ELSE IF Len(ps) > 2 THEN wrapConnected(ts, ps)
  ELSE TRUE

\* a line that remembers its answer until its stop list changes
isValidCached(ts, ps) ==
  IF lineObs.seen /\ ps = ports THEN lineObs.ret
  ELSE IF Len(ps) < 2 THEN FALSE
  ELSE IF ~consecutiveConnected(ts, ps, 0, Len(ps) - 1) THEN FALSE
  ELSE IF Len(ps) > 2 THEN wrapConnected(ts, ps)
  ELSE TRUE

isValid(ts, ps) ==
  IF Len(ps) < 2 THEN FALSE
  ELSE IF ~consecutiveConnected(ts, ps, 0, Len(ps) - 1) THEN FALSE
  ELSE IF Len(ps) > 2 THEN wrapConnected(ts, ps)
  ELSE TRUE

\* ------------------------------------- TransitLine.addPort / removeLastPort
addPortAlways(ps, port) == Append(ps, port)

addPort(ps, port) ==
  IF Len(ps) > 0 /\ ps[Len(ps)] = port THEN ps ELSE Append(ps, port)

\* Array.prototype.pop: the list after the pop
removeLastPort(ps) == IF Len(ps) = 0 THEN ps ELSE SubSeq(ps, 1, Len(ps) - 1)

\* ---------------------------------------------------- TransitLine.getNextPort
\* a getNextPort result: null, or the port
NoPort == [found |-> FALSE, port |-> <<>>]
SomePort(port) == [found |-> TRUE, port |-> port]

\* Array.prototype.pop: what the pop returns, undefined on an empty array
popped(ps) == IF Len(ps) = 0 THEN NoPort ELSE SomePort(ps[Len(ps)])

\* Array.prototype.indexOf, 0-based, -1 when absent
RECURSIVE indexFrom(_, _, _)
indexFrom(ps, port, i) ==
  IF i >= Len(ps) THEN -1
  ELSE IF ps[i + 1] = port THEN i
  ELSE indexFrom(ps, port, i + 1)

indexOf(ps, port) == indexFrom(ps, port, 0)

getNextPortNoWrap(ps, currentPort) ==
  LET index == indexOf(ps, currentPort)
  IN IF index = -1 \/ index + 1 >= Len(ps) THEN NoPort ELSE SomePort(ps[index + 2])

getNextPort(ps, currentPort) ==
  LET index == indexOf(ps, currentPort)
  IN IF index = -1 THEN NoPort ELSE SomePort(ps[((index + 1) % Len(ps)) + 1])

\* -------------------------------------------------------------------- Boat
speed == 3
maxCapacity == 10

\* Boat.updatePath: a found path replaces the path and restarts the index
updatePath(b, ts) ==
  LET startPos == getPosition(b.startPort)
      endPos == getPosition(b.endPort)
      path == findPath(ts, startPos.x, startPos.y, endPos.x, endPos.y)
  IN IF path.found
       THEN [b EXCEPT !.path = path.path, !.pathIndex = 0, !.needsNewPath = FALSE]
       ELSE [b EXCEPT !.needsNewPath = TRUE]

BoatAtEnd(startPort, endPort, ts) ==
  updatePath([position |-> getPosition(endPort),
              path |-> <<>>,
              pathIndex |-> 0,
              passengers |-> <<>>,
              startPort |-> startPort,
              endPort |-> endPort,
              needsNewPath |-> FALSE,
              transitLine |-> FALSE],
             ts)

\* new Boat(startPort, endPort, routeNetwork): the field initialisers, then updatePath
Boat(startPort, endPort, ts) ==
  updatePath([position |-> getPosition(startPort),
              path |-> <<>>,
              pathIndex |-> 0,
              passengers |-> <<>>,
              startPort |-> startPort,
              endPort |-> endPort,
              needsNewPath |-> FALSE,
              transitLine |-> FALSE],
             ts)

\* Boat.loadPassengers: the number it returns
toLoad(b, passengers) ==
  LET availableSpace == maxCapacity - Len(b.passengers)
  IN IF Len(passengers) < availableSpace THEN Len(passengers) ELSE availableSpace

loadPassengersAll(b, passengers) == [b EXCEPT !.passengers = @ \o passengers]

\* Boat.loadPassengers: the boat after boarding as many as fit, in order
loadPassengers(b, passengers) ==
  [b EXCEPT !.passengers = @ \o SubSeq(passengers, 1, toLoad(b, passengers))]

\* Boat.unloadPassengers: the list it returns
unloaded(b) == b.passengers

unloadPassengersButOne(b) ==
  [b EXCEPT !.passengers = IF @ = <<>> THEN @ ELSE <<@[1]>>]

\* Boat.unloadPassengers: the boat afterwards
unloadPassengers(b) == [b EXCEPT !.passengers = <<>>]

setTransitLine(b) == [b EXCEPT !.transitLine = TRUE]

isAtDestination(b) == b.pathIndex >= Len(b.path)

needsPathUpdate(b) == b.needsNewPath

forcePathUpdateClearing(b, ts) ==
  IF updatePath(b, ts).needsNewPath
    THEN [b EXCEPT !.path = <<>>, !.pathIndex = 0, !.needsNewPath = TRUE]
    ELSE updatePath(b, ts)

forcePathUpdate(b, ts) == updatePath(b, ts)

swapDestinationLineOnly(b, ps, ts) ==
  LET nextPort == getNextPort(ps, b.endPort)
  IN IF b.transitLine /\ nextPort.found
       THEN updatePath([b EXCEPT !.startPort = b.endPort, !.endPort = nextPort.port], ts)
       ELSE updatePath(b, ts)

swapDestination(b, ps, ts) ==
  LET nextPort == getNextPort(ps, b.endPort)
  IN IF b.transitLine /\ nextPort.found
       THEN updatePath([b EXCEPT !.startPort = b.endPort, !.endPort = nextPort.port], ts)
       ELSE updatePath([b EXCEPT !.startPort = b.endPort, !.endPort = b.startPort], ts)

\* Positions are kept to the nearest world unit: a step along a grid axis is
\* exactly speed, any other step is (d / dist) * speed rounded to the unit.
stepToward(d, dist2) ==
  LET fits == {n \in 0..speed : n = 0 \/ (2 * n - 1) * (2 * n - 1) * dist2 <= 4 * d * d * speed * speed}
      n == CHOOSE m \in fits : \A k \in fits : k <= m
  IN IF d < 0 THEN -n ELSE n

\* the boat never snaps onto a waypoint: within a step of it, it stays
moveNoSnap(b) ==
  IF b.pathIndex < Len(b.path)
    THEN LET target == b.path[b.pathIndex + 1]
             dx == target.x - b.position.x
             dy == target.y - b.position.y
             dist2 == dx * dx + dy * dy
         IN IF dist2 < speed * speed
              THEN b
              ELSE [b EXCEPT !.position = [x |-> b.position.x + stepToward(dx, dist2),
                                           y |-> b.position.y + stepToward(dy, dist2)]]
    ELSE b

moveSkipping(b) ==
  IF b.pathIndex < Len(b.path)
    THEN [b EXCEPT !.position = b.path[b.pathIndex + 1], !.pathIndex = @ + 2]
    ELSE b

\* the movement half of Boat.update
move(b) ==
  IF b.pathIndex < Len(b.path)
    THEN LET target == b.path[b.pathIndex + 1]
             dx == target.x - b.position.x
             dy == target.y - b.position.y
             dist2 == dx * dx + dy * dy
         IN IF dist2 < speed * speed
              THEN [b EXCEPT !.position = target, !.pathIndex = @ + 1]
              ELSE [b EXCEPT !.position = [x |-> b.position.x + stepToward(dx, dist2),
                                           y |-> b.position.y + stepToward(dy, dist2)]]
    ELSE b

updateDrifting(b, ts) == move(updatePath(b, ts))

updateRetryOnly(b, ts) ==
  IF b.needsNewPath THEN updatePath(b, ts) ELSE move(b)

\* Boat.update
update(b, ts) ==
  IF b.needsNewPath
    THEN LET b1 == updatePath(b, ts)
         IN IF b1.needsNewPath THEN b1 ELSE move(b1)
    ELSE move(b)

\* ------------------------------------------------------ TransitLine boats
defaultMaxBoats == 2

spawnBoatUncapped(bs, ps, mx, ts) ==
  IF Len(ps) < 2 THEN bs
  ELSE Append(bs, setTransitLine(Boat(ps[1], ps[2], ts)))

spawnBoat(bs, ps, mx, ts) ==
  IF Len(bs) >= mx THEN bs
  ELSE IF Len(ps) < 2 THEN bs
  ELSE Append(bs, setTransitLine(Boat(ps[1], ps[2], ts)))

\* the line's capacity and boats after setMaxBoats(max)
setMaxBoatsTrim(bs, max) ==
  [maxBoats |-> max, boats |-> IF Len(bs) > max THEN SubSeq(bs, 1, max) ELSE bs]

setMaxBoats(bs, max) == [maxBoats |-> max, boats |-> bs]

\* removeBoat of the boat at a 1-based position of the boats array
removeBoat(bs, i) ==
  IF i \in 1..Len(bs) THEN SubSeq(bs, 1, i - 1) \o SubSeq(bs, i + 1, Len(bs)) ELSE bs

\* ------------------------------------------------------------------ state
NoCall == [op |-> "none"]

NoHist == [leg |-> 0]

\* no scene around the network: no Port objects
NoPorts == <<>>

NoObs == [now |-> FALSE, seen |-> FALSE, ret |-> FALSE,
          hasPrev |-> FALSE, prev |-> FALSE, hasPrev2 |-> FALSE, prev2 |-> FALSE]

Init ==
  /\ tiles = <<>>
  /\ ports = <<>>
  /\ last = NoCall
  /\ lineObs = NoObs
  /\ maxBoats = defaultMaxBoats
  /\ boats = <<>>
  /\ hist = NoHist
  /\ score = 0
  /\ isGameOver = FALSE
  /\ gameTime = 0
  /\ scenePorts = NoPorts

\* ------------------------------------------------ RouteNetwork operations
\* Calls are synchronous: the caller consumes a call's record before the next call.
AddTile(c, in) ==
  /\ last = NoCall
  /\ Cardinality(DOMAIN tiles) < MaxTiles \/ c \in DOMAIN tiles
  /\ tiles' = addTile(tiles, c[1], c[2], in.color, in.isPortTile)
  /\ last' = [op |-> "addTile", x |-> c[1], y |-> c[2],
              color |-> in.color, isPortTile |-> in.isPortTile]
  /\ UNCHANGED <<ports, lineObs, maxBoats, boats, hist, score, scenePorts, isGameOver, gameTime>>

RemoveTile(c) ==
  /\ last = NoCall
  /\ tiles' = removeTile(tiles, c[1], c[2]).tiles
  /\ last' = [op |-> "removeTile", x |-> c[1], y |-> c[2],
              ret |-> removeTile(tiles, c[1], c[2]).ret]
  /\ UNCHANGED <<ports, lineObs, maxBoats, boats, hist, score, scenePorts, isGameOver, gameTime>>

FindPath(s, e) ==
  /\ last = NoCall
  /\ last' = [op |-> "findPath", startX |-> s[1], startY |-> s[2],
              endX |-> e[1], endY |-> e[2],
              ret |-> findPath(tiles, s[1], s[2], e[1], e[2]),
              connected |-> areConnected(tiles, s[1], s[2], e[1], e[2])]
  /\ UNCHANGED <<tiles, ports, lineObs, maxBoats, boats, hist, score, scenePorts, isGameOver, gameTime>>

Return ==
  /\ last # NoCall
  /\ last' = NoCall
  /\ UNCHANGED <<tiles, ports, lineObs, maxBoats, boats, hist, score, scenePorts, isGameOver, gameTime>>

NextNet ==
  \/ \E c \in Coords, in \in AddInputs : AddTile(c, in)
  \/ \E c \in Coords : RemoveTile(c)
  \/ \E s \in Coords, e \in Coords : FindPath(s, e)
  \/ Return

Spec == Init /\ [][NextNet]_vars

\* ------------------------------------------------- TransitLine operations
\* tile edits under a line: the tile of a station is a port tile
EditAdd(c) ==
  /\ Cardinality(DOMAIN tiles) < MaxTiles \/ c \in DOMAIN tiles
  /\ tiles' = addTile(tiles, c[1], c[2], DefaultColor, c \in Stations)
  /\ lineObs' = [lineObs EXCEPT !.now = FALSE]
  /\ UNCHANGED <<ports, last, maxBoats, boats, hist, score, scenePorts, isGameOver, gameTime>>

EditRemove(c) ==
  /\ tiles' = removeTile(tiles, c[1], c[2]).tiles
  /\ lineObs' = [lineObs EXCEPT !.now = FALSE]
  /\ UNCHANGED <<ports, last, maxBoats, boats, hist, score, scenePorts, isGameOver, gameTime>>

AddPort(port) ==
  /\ IF Len(ports) < MaxStops THEN TRUE ELSE ports[Len(ports)] = port
  /\ ports' = addPort(ports, port)
  /\ lineObs' = IF ports' = ports THEN [lineObs EXCEPT !.now = FALSE] ELSE NoObs
  /\ UNCHANGED <<tiles, last, maxBoats, boats, hist, score, scenePorts, isGameOver, gameTime>>

RemoveLastPort ==
  /\ ports' = removeLastPort(ports)
  /\ lineObs' = IF ports' = ports THEN [lineObs EXCEPT !.now = FALSE] ELSE NoObs
  /\ UNCHANGED <<tiles, last, maxBoats, boats, hist, score, scenePorts, isGameOver, gameTime>>

IsValid ==
  /\ lineObs' = [now |-> TRUE, seen |-> TRUE, ret |-> isValid(tiles, ports),
                 hasPrev |-> lineObs.seen, prev |-> lineObs.ret,
                 hasPrev2 |-> lineObs.hasPrev, prev2 |-> lineObs.prev]
  /\ UNCHANGED <<tiles, ports, last, maxBoats, boats, hist, score, scenePorts, isGameOver, gameTime>>

NextLine ==
  \/ \E c \in Coords : EditAdd(c)
  \/ \E c \in Coords : EditRemove(c)
  \/ \E port \in Stations : AddPort(port)
  \/ RemoveLastPort
  \/ IsValid

SpecLine == Init /\ [][NextLine]_vars

\* --------------------------------------- TransitLine stop-list calls, recorded
CallAddPort(port) ==
  /\ last = NoCall
  /\ IF Len(ports) < MaxStops THEN TRUE ELSE ports[Len(ports)] = port
  /\ ports' = addPort(ports, port)
  /\ last' = [op |-> "addPort", arg |-> port, before |-> ports]
  /\ UNCHANGED <<tiles, lineObs, maxBoats, boats, hist, score, scenePorts, isGameOver, gameTime>>

CallRemoveLastPort ==
  /\ last = NoCall
  /\ ports' = removeLastPort(ports)
  /\ last' = [op |-> "removeLastPort", before |-> ports, ret |-> popped(ports)]
  /\ UNCHANGED <<tiles, lineObs, maxBoats, boats, hist, score, scenePorts, isGameOver, gameTime>>

CallGetNextPort(port) ==
  /\ last = NoCall
  /\ last' = [op |-> "getNextPort", arg |-> port, ret |-> getNextPort(ports, port)]
  /\ UNCHANGED <<tiles, ports, lineObs, maxBoats, boats, hist, score, scenePorts, isGameOver, gameTime>>

NextStops ==
  \/ \E port \in Stations : CallAddPort(port)
  \/ CallRemoveLastPort
  \/ \E port \in Stations : CallGetNextPort(port)
  \/ Return

SpecStops == Init /\ [][NextStops]_vars

\* ------------------------------------------------- TransitLine boat fleet
\* the harbour: the cell of every station is a port tile of the network
RECURSIVE harbour(_, _)
harbour(ts, stations) ==
  IF stations = {} THEN ts
  ELSE LET c == CHOOSE k \in stations : \A o \in stations : k[1] < o[1] \/ (k[1] = o[1] /\ k[2] <= o[2])
       IN harbour(addTile(ts, c[1], c[2], DefaultColor, TRUE), stations \ {c})

InitHarbour ==
  /\ tiles = harbour(<<>>, Stations)
  /\ ports = <<>>
  /\ last = NoCall
  /\ lineObs = NoObs
  /\ maxBoats = defaultMaxBoats
  /\ boats = <<>>
  /\ hist = NoHist
  /\ score = 0
  /\ isGameOver = FALSE
  /\ gameTime = 0
  /\ scenePorts = NoPorts

\* the water cells edited under a fleet: the free cells of the stations' row
Channel == {c \in Coords \ Stations : c[2] = 0}

NetAdd(c) == last = NoCall /\ EditAdd(c)

NetRemove(c) == last = NoCall /\ EditRemove(c)

StopAdd(port) == last = NoCall /\ AddPort(port)

StopRemoveLast == last = NoCall /\ RemoveLastPort

SpawnBoat ==
  /\ last = NoCall
  /\ boats' = spawnBoat(boats, ports, maxBoats, tiles)
  /\ last' = [op |-> "spawnBoat", before |-> Len(boats)]
  /\ UNCHANGED <<tiles, ports, lineObs, maxBoats, hist, score, scenePorts, isGameOver, gameTime>>

SetMaxBoats(max) ==
  /\ last = NoCall
  /\ maxBoats' = setMaxBoats(boats, max).maxBoats
  /\ boats' = setMaxBoats(boats, max).boats
  /\ last' = [op |-> "setMaxBoats"]
  /\ UNCHANGED <<tiles, ports, lineObs, hist, score, scenePorts, isGameOver, gameTime>>

RemoveBoat(i) ==
  /\ last = NoCall
  /\ boats' = removeBoat(boats, i)
  /\ UNCHANGED <<tiles, ports, last, lineObs, maxBoats, hist, score, scenePorts, isGameOver, gameTime>>

NextFleet ==
  \/ \E c \in Channel : NetAdd(c)
  \/ \E c \in Channel : NetRemove(c)
  \/ \E port \in Stations : StopAdd(port)
  \/ StopRemoveLast
  \/ SpawnBoat
  \/ \E max \in 0..defaultMaxBoats : SetMaxBoats(max)
  \/ \E i \in 1..Len(boats) : RemoveBoat(i)
  \/ Return

SpecFleet == InitHarbour /\ [][NextFleet]_vars

\* ------------------------------------------------------- one Boat, ticking
\* the passenger lists offered to a boat
Manifests == { <<[destinationType |-> "residential"]>> }

NewBoat(startPort, endPort) ==
  /\ last = NoCall
  /\ boats = <<>>
  /\ boats' = <<Boat(startPort, endPort, tiles)>>
  /\ UNCHANGED <<tiles, ports, last, lineObs, maxBoats, hist, score, scenePorts, isGameOver, gameTime>>

Update(i) ==
  /\ last = NoCall
  /\ boats' = [boats EXCEPT ![i] = update(@, tiles)]
  /\ last' = [op |-> "update", boat |-> i, before |-> boats[i]]
  /\ UNCHANGED <<tiles, ports, lineObs, maxBoats, hist, score, scenePorts, isGameOver, gameTime>>

ForcePathUpdate(i) ==
  /\ last = NoCall
  /\ boats' = [boats EXCEPT ![i] = forcePathUpdate(@, tiles)]
  /\ UNCHANGED <<tiles, ports, last, lineObs, maxBoats, hist, score, scenePorts, isGameOver, gameTime>>

SwapDestination(i) ==
  /\ last = NoCall
  /\ boats' = [boats EXCEPT ![i] = swapDestination(@, ports, tiles)]
  /\ UNCHANGED <<tiles, ports, last, lineObs, maxBoats, hist, score, scenePorts, isGameOver, gameTime>>

LoadPassengers(i, passengers) ==
  /\ last = NoCall
  /\ boats[i].passengers = <<>>
  /\ boats' = [boats EXCEPT ![i] = loadPassengers(@, passengers)]
  /\ UNCHANGED <<tiles, ports, last, lineObs, maxBoats, hist, score, scenePorts, isGameOver, gameTime>>

NextBoat ==
  \/ \E c \in Channel : NetAdd(c)
  \/ \E c \in Channel : NetRemove(c)
  \/ \E startPort \in Stations, endPort \in Stations : NewBoat(startPort, endPort)
  \/ \E i \in 1..Len(boats) : Update(i)
  \/ \E i \in 1..Len(boats) : ForcePathUpdate(i)
  \/ \E i \in 1..Len(boats) : SwapDestination(i)
  \/ \E i \in 1..Len(boats), passengers \in Manifests : LoadPassengers(i, passengers)
  \/ Return

SpecBoat == InitHarbour /\ [][NextBoat]_vars

\* ----------------------------------------------- one Boat, its passengers
MaxLoad == 15

PortTypes == <<"residential", "industrial", "commercial">>

\* a queue of n passengers, their destinations going round the port types
Cargo(n) == [k \in 1..n |-> [destinationType |-> PortTypes[((k - 1) % 3) + 1]]]

InitCargo ==
  /\ tiles = harbour(<<>>, Stations)
  /\ ports = <<>>
  /\ last = NoCall
  /\ lineObs = NoObs
  /\ maxBoats = defaultMaxBoats
  /\ \E startPort \in Stations : \E endPort \in Stations \ {startPort} :
       boats = <<Boat(startPort, endPort, harbour(<<>>, Stations))>>
  /\ hist = NoHist
  /\ score = 0
  /\ isGameOver = FALSE
  /\ gameTime = 0
  /\ scenePorts = NoPorts

CallLoadPassengers(i, passengers) ==
  /\ last = NoCall
  /\ boats' = [boats EXCEPT ![i] = loadPassengers(@, passengers)]
  /\ last' = [op |-> "loadPassengers", boat |-> i, arg |-> passengers,
              ret |-> toLoad(boats[i], passengers)]
  /\ UNCHANGED <<tiles, ports, lineObs, maxBoats, hist, score, scenePorts, isGameOver, gameTime>>

CallUnloadPassengers(i) ==
  /\ last = NoCall
  /\ boats' = [boats EXCEPT ![i] = unloadPassengers(@)]
  /\ last' = [op |-> "unloadPassengers", boat |-> i, ret |-> unloaded(boats[i])]
  /\ UNCHANGED <<tiles, ports, lineObs, maxBoats, hist, score, scenePorts, isGameOver, gameTime>>

NextCargo ==
  \/ \E i \in 1..Len(boats), n \in 0..MaxLoad : CallLoadPassengers(i, Cargo(n))
  \/ \E i \in 1..Len(boats) : CallUnloadPassengers(i)
  \/ Return

SpecCargo == InitCargo /\ [][NextCargo]_vars

\* ------------------------------------------------- one Boat, touring a line
\* the waterway: the harbour with every channel cell a water tile
RECURSIVE dredge(_, _)
dredge(ts, cells) ==
  IF cells = {} THEN ts
  ELSE LET c == CHOOSE k \in cells : \A o \in cells : k[1] <= o[1]
       IN dredge(addTile(ts, c[1], c[2], DefaultColor, FALSE), cells \ {c})

\* the lines toured: loops of up to one stop more than the stations, so that
\* a station can be listed twice; every leg, the wrap-around too, joins two
\* different stations
Lines ==
  { ps \in UNION { [1..n -> Stations] : n \in 2..(MaxStops + 1) } :
      /\ \A i \in 1..(Len(ps) - 1) : ps[i] # ps[i + 1]
      /\ ps[Len(ps)] # ps[1] \/ Len(ps) = 2 }

InitCycle ==
  /\ tiles = dredge(harbour(<<>>, Stations), Channel)
  /\ ports \in Lines
  /\ boats = spawnBoat(<<>>, ports, defaultMaxBoats, tiles)
  /\ last = NoCall
  /\ lineObs = NoObs
  /\ maxBoats = defaultMaxBoats
  /\ hist = NoHist
  /\ score = 0
  /\ isGameOver = FALSE
  /\ gameTime = 0
  /\ scenePorts = NoPorts

\* a tick of a boat under way
Sail(i) ==
  /\ ~isAtDestination(boats[i])
  /\ boats' = [boats EXCEPT ![i] = update(@, tiles)]
  /\ UNCHANGED <<tiles, ports, last, lineObs, maxBoats, hist, score, scenePorts, isGameOver, gameTime>>

\* an arrival, followed by swapDestination
Arrive(i) ==
  /\ isAtDestination(boats[i])
  /\ boats' = [boats EXCEPT ![i] = swapDestination(@, ports, tiles)]
  /\ hist' = [leg |-> (hist.leg + 1) % Len(ports)]
  /\ UNCHANGED <<tiles, ports, last, lineObs, maxBoats, score, scenePorts, isGameOver, gameTime>>

NextCycle ==
  \/ \E i \in 1..Len(boats) : Sail(i)
  \/ \E i \in 1..Len(boats) : Arrive(i)

SpecCycle == InitCycle /\ [][NextCycle]_vars

\* ------------------------------------------- one Boat, re-targeted at will
SpawnFirst == boats = <<>> /\ SpawnBoat

CallSwapDestination(i) ==
  /\ last = NoCall
  /\ boats' = [boats EXCEPT ![i] = swapDestination(@, ports, tiles)]
  /\ last' = [op |-> "swapDestination", boat |-> i, before |-> boats[i]]
  /\ UNCHANGED <<tiles, ports, lineObs, maxBoats, hist, score, scenePorts, isGameOver, gameTime>>

NextSwap ==
  \/ \E c \in Channel : NetAdd(c)
  \/ \E c \in Channel : NetRemove(c)
  \/ \E port \in Stations : StopAdd(port)
  \/ StopRemoveLast
  \/ SpawnFirst
  \/ \E startPort \in Stations, endPort \in Stations : NewBoat(startPort, endPort)
  \/ \E i \in 1..Len(boats), passengers \in Manifests : LoadPassengers(i, passengers)
  \/ \E i \in 1..Len(boats) : CallSwapDestination(i)
  \/ Return

SpecSwap == InitHarbour /\ [][NextSwap]_vars

\* ------------------------------------- one Boat, its path forced at will
CallForcePathUpdate(i) ==
  /\ last = NoCall
  /\ boats' = [boats EXCEPT ![i] = forcePathUpdate(@, tiles)]
  /\ last' = [op |-> "forcePathUpdate", boat |-> i, before |-> boats[i]]
  /\ UNCHANGED <<tiles, ports, lineObs, maxBoats, hist, score, scenePorts, isGameOver, gameTime>>

NextForce ==
  \/ \E c \in Channel : NetAdd(c)
  \/ \E c \in Channel : NetRemove(c)
  \/ \E startPort \in Stations, endPort \in Stations : NewBoat(startPort, endPort)
  \/ \E i \in 1..Len(boats), passengers \in Manifests : LoadPassengers(i, passengers)
  \/ \E i \in 1..Len(boats) : Update(i)
  \/ \E i \in 1..Len(boats) : CallForcePathUpdate(i)
  \/ Return

SpecForce == InitHarbour /\ [][NextForce]_vars

\* ----------------------------------- findPath, one loop iteration at a time
\* the guard of findPath, then queue, visited and parent as first set up;
\* enqueued and dequeued log every push and every shift of the queue
BeginSearch(s, e) ==
  LET startKey == getKey(s[1], s[2])
      endKey == getKey(e[1], e[2])
  IN /\ last = NoCall
     /\ last' = IF startKey \notin DOMAIN tiles \/ endKey \notin DOMAIN tiles
                  THEN [op |-> "search", startKey |-> startKey, endKey |-> endKey,
                        st |-> [queue |-> <<>>, visited |-> {}, parent |-> <<>>],
                        enqueued |-> <<>>, dequeued |-> <<>>,
                        done |-> TRUE, ret |-> Null]
                  ELSE [op |-> "search", startKey |-> startKey, endKey |-> endKey,
                        st |-> [queue |-> <<startKey>>, visited |-> {startKey},
                                parent |-> <<>>],
                        enqueued |-> <<startKey>>, dequeued |-> <<>>,
                        done |-> FALSE, ret |-> Null]
     /\ UNCHANGED <<tiles, ports, lineObs, maxBoats, boats, hist, score, scenePorts, isGameOver, gameTime>>

\* one pass of the while-loop: the test of the queue, the shift, the test
\* for the end, the for-loop over the connections
Iterate ==
  /\ last.op = "search"
  /\ ~last.done
  /\ last' =
       IF last.st.queue = <<>> THEN [last EXCEPT !.done = TRUE, !.ret = Null]
       ELSE LET current == shift(last.st.queue).current
                shifted == [last.st EXCEPT !.queue = shift(last.st.queue).rest]
                grown == expand(tiles[current].connections, 1, current, shifted)
            IN IF current = last.endKey
                 THEN [last EXCEPT
                         !.st = shifted,
                         !.dequeued = Append(@, current),
                         !.done = TRUE,
                         !.ret = Found(reconstruct(last.st.parent, last.startKey,
                                                   last.endKey))]
                 ELSE IF current \notin DOMAIN tiles
                   THEN [last EXCEPT !.st = shifted, !.dequeued = Append(@, current)]
                   ELSE [last EXCEPT
                           !.st = grown,
                           !.dequeued = Append(@, current),
                           !.enqueued = @ \o SubSeq(grown.queue, Len(shifted.queue) + 1,
                                                     Len(grown.queue))]
  /\ UNCHANGED <<tiles, ports, lineObs, maxBoats, boats, hist, score, scenePorts, isGameOver, gameTime>>

\* findPath has returned to its caller
EndSearch ==
  /\ last.op = "search"
  /\ last.done
  /\ last' = NoCall
  /\ UNCHANGED <<tiles, ports, lineObs, maxBoats, boats, hist, score, scenePorts, isGameOver, gameTime>>

NextSearch ==
  \/ \E c \in Coords : NetAdd(c)
  \/ \E c \in Coords : NetRemove(c)
  \/ \E s \in Coords, e \in Coords : BeginSearch(s, e)
  \/ Iterate
  \/ EndSearch

\* a running loop runs on: nothing else executes while findPath is active
SpecSearch == Init /\ [][NextSearch]_vars /\ WF_vars(Iterate)

\* ------------------------------------------------------- the Start scene
MaxPassengers == 1

maxTiles == 30

boatCapacity == 10

\* where the scene's first three ports came to lie, and where a later one may
firstPorts == << <<0, 0>>, <<4 * gridSize, 0>>, <<0, 4 * gridSize>> >>

NewPortSites == { <<2 * gridSize, gridSize>> }

\* the one cell between the tiles around the first two ports
Strait == { <<2 * gridSize, 0>> }

\* the cells the player points at: the strait and a tile beside a port
Cells == Strait \cup { <<gridSize, 0>> }

offsets == << <<0, 0>>, <<1, 0>>, <<-1, 0>>, <<0, 1>>, <<0, -1>> >>

RECURSIVE addTilesFrom(_, _, _)
addTilesFrom(ts, pos, i) ==
  IF i > Len(offsets) THEN ts
  ELSE addTilesFrom(addTile(ts, pos[1] + offsets[i][1] * gridSize,
                            pos[2] + offsets[i][2] * gridSize, DefaultColor, TRUE),
                    pos, i + 1)

addTilesAroundPort(ts, pos) == addTilesFrom(ts, pos, 1)

Port(type) == [type |-> type, passengers |-> <<>>, overflowTimer |-> 0]

\* the scene after initializePorts: tiles and Port objects
RECURSIVE initializePorts(_, _)
initializePorts(sc, i) ==
  IF i > Len(firstPorts) THEN sc
  ELSE initializePorts(
         [tiles |-> addTilesAroundPort(sc.tiles, firstPorts[i]),
          ports |-> (firstPorts[i] :> Port(PortTypes[i])) @@ sc.ports],
         i + 1)

getType(sp, port) == sp[port].type

getPlayerTileCount(ts) == Cardinality({k \in DOMAIN ts : ~ts[k].isPortTile})

\* Port.removePassengers(count) without a target type
removePassengers(port, count) ==
  LET toRemove == IF count < Len(port.passengers) THEN count ELSE Len(port.passengers)
  IN [removed |-> SubSeq(port.passengers, 1, toRemove),
      port |-> [port EXCEPT !.passengers = SubSeq(@, toRemove + 1, Len(@))]]

\* Port.maxCapacity and Port.overflowThreshold
portMaxCapacity == 20
overflowThreshold == 5000

\* Port.update(elapsed) of one port: spawn says whether the spawn timer has
\* run out, and toward which type the new passenger travels
portUpdate(port, elapsed, spawn) ==
  LET queue == IF spawn = <<>> THEN port.passengers
               ELSE Append(port.passengers, [destinationType |-> spawn[1]])
  IN [port EXCEPT !.passengers = queue,
                  !.overflowTimer = IF Len(queue) >= portMaxCapacity THEN @ + elapsed ELSE 0]

hasOverflowed(port) == port.overflowTimer >= overflowThreshold

\* "for (const port of this.ports) port.update(elapsed)": the spawn timer of
\* the port gen names has run out, the other ports' timers have not
generate(sp, gen, elapsed) ==
  [p \in DOMAIN sp |->
     portUpdate(sp[p], elapsed, IF gen # <<>> /\ gen[1] = p THEN <<gen[2]>> ELSE <<>>)]

\* what the ports generate in a tick: nothing, or at the first port a
\* passenger for the type of the second
Generations == { <<>>, <<firstPorts[1], PortTypes[2]>> }

RECURSIVE Sum(_, _)
Sum(f, S) == IF S = {} THEN 0 ELSE LET x == CHOOSE y \in S : TRUE IN f[x] + Sum(f, S \ {x})

\* the passengers generated so far: waiting, aboard or delivered
Generated ==
  Sum([port \in DOMAIN scenePorts |-> Len(scenePorts[port].passengers)], DOMAIN scenePorts)
    + Sum([i \in 1..Len(boats) |-> Len(boats[i].passengers)], 1..Len(boats))
    + score

\* "for (const boat of line.getBoats()) if (boat.needsPathUpdate()) ..."
forceNeeding(bs, ts) ==
  [i \in 1..Len(bs) |-> IF needsPathUpdate(bs[i]) THEN forcePathUpdate(bs[i], ts) ELSE bs[i]]

forceAllNeeding(bs, ts) == forceNeeding(bs, ts)

\* "for (const boat of line.getBoats()) boat.forcePathUpdate()"
forceAll(bs, ts) == [i \in 1..Len(bs) |-> forcePathUpdate(bs[i], ts)]

matchingPassengers(all, destinationType) ==
  SelectSeq(all, LAMBDA p : p.destinationType = destinationType)

nonMatchingPassengers(all, destinationType) ==
  SelectSeq(all, LAMBDA p : p.destinationType # destinationType)

\* the unloading half of the arrival handling: boat and score after it
deliverAll(b, destinationType, sc) ==
  IF Len(b.passengers) > 0
    THEN [boat |-> unloadPassengers(b), score |-> sc + Len(unloaded(b))]
    ELSE [boat |-> b, score |-> sc]

deliver(b, destinationType, sc) ==
  IF Len(b.passengers) > 0
    THEN LET allPassengers == unloaded(b)
             matching == matchingPassengers(allPassengers, destinationType)
             nonMatching == nonMatchingPassengers(allPassengers, destinationType)
         IN [boat |-> IF Len(nonMatching) > 0
                        THEN loadPassengers(unloadPassengers(b), nonMatching)
                        ELSE unloadPassengers(b),
             score |-> sc + Len(matching)]
    ELSE [boat |-> b, score |-> sc]

\* the port hands over a boatload whatever room the boat has
embarkBoatload(b, port) ==
  LET taken == removePassengers(port, boatCapacity)
  IN IF Len(port.passengers) > 0
       THEN [boat |-> loadPassengers(b, taken.removed), port |-> taken.port]
       ELSE [boat |-> b, port |-> port]

\* the loading half: boat and port after it
embark(b, port) ==
  LET availableSpace == boatCapacity - Len(b.passengers)
      taken == removePassengers(port, availableSpace)
  IN IF Len(port.passengers) > 0 /\ availableSpace > 0
       THEN [boat |-> loadPassengers(b, taken.removed), port |-> taken.port]
       ELSE [boat |-> b, port |-> port]

\* the body of the loop over the boats in Start.update, for boat i
tickBoat(sc, i, ps, ts) ==
  LET b1 == update(sc.boats[i], ts)
  IN IF isAtDestination(b1)
       THEN LET destinationPort == b1.endPort
                d == deliver(b1, getType(sc.ports, destinationPort), sc.score)
                e == embark(d.boat, sc.ports[destinationPort])
            IN [boats |-> [sc.boats EXCEPT ![i] = swapDestination(e.boat, ps, ts)],
                ports |-> [sc.ports EXCEPT ![destinationPort] = e.port],
                score |-> d.score,
                arrived |-> sc.arrived \cup {i}]
       ELSE [sc EXCEPT !.boats[i] = b1]

RECURSIVE tickBoats(_, _, _, _)
tickBoats(sc, i, ps, ts) ==
  IF i > Len(sc.boats) THEN sc
  ELSE tickBoats(tickBoat(sc, i, ps, ts), i + 1, ps, ts)

NoSite == <<>>

\* spawnNewPort when the port timer has run out: tiles, ports and boats after
spawnNewPort(sc, site, type) ==
  IF site = NoSite THEN sc
  ELSE LET ts == addTilesAroundPort(sc.tiles, site)
       IN [sc EXCEPT !.tiles = ts,
                     !.ports = (site :> Port(type)) @@ @,
                     !.boats = forceNeeding(@, ts)]

\* the boats no forcePathUpdate has reached since the network was edited
Unforced(before, after, bs, forced) ==
  IF after # before
    THEN (hist.unforced \cup (1..Len(bs))) \ forced
    ELSE hist.unforced \ forced

Needing(bs) == {i \in 1..Len(bs) : needsPathUpdate(bs[i])}

InitScene ==
  /\ tiles = addTile(initializePorts([tiles |-> <<>>, ports |-> <<>>], 1).tiles,
                     2 * gridSize, 0, DefaultColor, FALSE)
  /\ scenePorts = initializePorts([tiles |-> <<>>, ports |-> <<>>], 1).ports
  /\ ports = <<firstPorts[1], firstPorts[2]>>
  /\ last = NoCall
  /\ lineObs = NoObs
  /\ maxBoats = defaultMaxBoats
  /\ boats = <<>>
  /\ hist = [unforced |-> {}]
  /\ score = 0
  /\ isGameOver = FALSE
  /\ gameTime = 0

\* tile placement that does not look at isGameOver
PlaceTileAlways(c) ==
  /\ last = NoCall
  /\ getPlayerTileCount(tiles) < maxTiles
  /\ c \notin DOMAIN scenePorts
  /\ tiles' = addTile(tiles, c[1], c[2], DefaultColor, FALSE)
  /\ boats' = forceNeeding(boats, tiles')
  /\ hist' = [unforced |-> Unforced(tiles, tiles', boats, Needing(boats))]
  /\ UNCHANGED <<ports, last, lineObs, maxBoats, score, scenePorts, isGameOver, gameTime>>

\* "Place tiles while in place mode", the pointer on cell c
PlaceTile(c) ==
  /\ last = NoCall
  /\ ~isGameOver
  /\ getPlayerTileCount(tiles) < maxTiles
  /\ c \notin DOMAIN scenePorts
  /\ tiles' = addTile(tiles, c[1], c[2], DefaultColor, FALSE)
  /\ boats' = forceNeeding(boats, tiles')
  /\ hist' = [unforced |-> Unforced(tiles, tiles', boats, Needing(boats))]
  /\ UNCHANGED <<ports, last, lineObs, maxBoats, score, scenePorts, isGameOver, gameTime>>

\* "Remove tiles while in remove mode", the pointer on cell c
ClearTile(c) ==
  /\ last = NoCall
  /\ ~isGameOver
  /\ c \notin DOMAIN scenePorts
  /\ tiles' = removeTile(tiles, c[1], c[2]).tiles
  /\ boats' = IF removeTile(tiles, c[1], c[2]).ret THEN forceAll(boats, tiles') ELSE boats
  /\ hist' = [unforced |-> Unforced(tiles, tiles', boats,
                                    IF removeTile(tiles, c[1], c[2]).ret
                                      THEN 1..Len(boats) ELSE {})]
  /\ UNCHANGED <<ports, last, lineObs, maxBoats, score, scenePorts, isGameOver, gameTime>>

\* "Handle boat placement", the click on the line: a first boat, loaded at
\* the line's first port
PlaceBoat ==
  /\ last = NoCall
  /\ ~isGameOver
  /\ boats = <<>>
  /\ Len(ports) >= 2
  /\ Len(boats) < maxBoats
  /\ LET bs == spawnBoat(boats, ports, maxBoats, tiles)
         firstPort == scenePorts[ports[1]]
         taken == removePassengers(firstPort, boatCapacity)
     IN IF Len(firstPort.passengers) > 0 /\ Len(bs) > 0
          THEN /\ boats' = [bs EXCEPT ![Len(bs)] = loadPassengers(@, taken.removed)]
               /\ scenePorts' = [scenePorts EXCEPT ![ports[1]] = taken.port]
          ELSE /\ boats' = bs
               /\ scenePorts' = scenePorts
  /\ UNCHANGED <<tiles, ports, last, lineObs, maxBoats, hist, score, isGameOver, gameTime>>

\* Start.update(elapsed) while the game runs: the clock, the ports' timers
\* and the overflow check, the port timer, the loop over the boats
Tick(elapsed, gen, site, type) ==
  /\ last = NoCall
  /\ ~isGameOver
  /\ gen # <<>> => gen[2] # scenePorts[gen[1]].type
  /\ site # NoSite => site \notin DOMAIN scenePorts
  /\ gameTime' = gameTime + elapsed
  /\ isGameOver' = \E p \in DOMAIN scenePorts : hasOverflowed(generate(scenePorts, gen, elapsed)[p])
  /\ LET spawned == spawnNewPort([tiles |-> tiles,
                                  ports |-> generate(scenePorts, gen, elapsed),
                                  boats |-> boats, score |-> score, arrived |-> {}],
                                 site, type)
         ticked == tickBoats(spawned, 1, ports, spawned.tiles)
     IN /\ tiles' = spawned.tiles
        /\ scenePorts' = ticked.ports
        /\ boats' = ticked.boats
        /\ score' = ticked.score
        /\ last' = [op |-> "tick", before |-> boats, arrived |-> ticked.arrived,
                    generated |-> gen,
                    unforced |-> Unforced(tiles, spawned.tiles, boats,
                                          IF site = NoSite THEN {} ELSE Needing(boats))]
  /\ hist' = [unforced |-> {}]
  /\ UNCHANGED <<ports, lineObs, maxBoats>>

NextScene ==
  \/ \E c \in Cells : PlaceTile(c)
  \/ \E c \in Cells : ClearTile(c)
  \/ PlaceBoat
  \/ \E gen \in Generations : \E site \in {NoSite} \cup NewPortSites :
       /\ gen # <<>> => Generated < MaxPassengers
       /\ Tick(0, gen, site, PortTypes[1])
  \/ Return

SpecScene == InitScene /\ [][NextScene]_vars

\* ------------------------------------- the Start scene, a line of three
MaxManifest == 3

\* the queues of up to n passengers a port of this type can have generated
Waiting(type, n) ==
  UNION { [1..k -> { [destinationType |-> t] : t \in Range(PortTypes) \ {type} }] :
            k \in 0..n }

\* the port that spawnNewPort has added to the first three
laterPort == CHOOSE site \in NewPortSites : TRUE

\* a second residential port has spawned and a line runs from the first
\* port over the new one to the second; passengers wait at its stops
InitArrival ==
  /\ tiles = addTilesAroundPort(
               addTile(initializePorts([tiles |-> <<>>, ports |-> <<>>], 1).tiles,
                       2 * gridSize, 0, DefaultColor, FALSE),
               laterPort)
  /\ \E first \in Waiting(PortTypes[1], MaxManifest) :
       \E later \in Waiting(PortTypes[1], 1) :
         \E second \in Waiting(PortTypes[2], 1) :
           scenePorts =
             [initializePorts([tiles |-> <<>>, ports |-> <<>>], 1).ports @@
                (laterPort :> [Port(PortTypes[1]) EXCEPT !.passengers = later])
              EXCEPT ![firstPorts[1]].passengers = first,
                     ![firstPorts[2]].passengers = second]
  /\ ports = <<firstPorts[1], laterPort, firstPorts[2]>>
  /\ last = NoCall
  /\ lineObs = NoObs
  /\ maxBoats = defaultMaxBoats
  /\ boats = <<>>
  /\ hist = [unforced |-> {}]
  /\ score = 0
  /\ isGameOver = FALSE
  /\ gameTime = 0

NextArrival ==
  \/ PlaceBoat
  \/ Tick(0, <<>>, NoSite, PortTypes[1])
  \/ Return

SpecArrival == InitArrival /\ [][NextArrival]_vars

\* ------------------------------------- the network, edited and queried
NextReach ==
  \/ \E c \in Coords : NetAdd(c)
  \/ \E c \in Coords : NetRemove(c)
  \/ \E s \in Coords, e \in Coords : FindPath(s, e)
  \/ Return

SpecReach == Init /\ [][NextReach]_vars

\* ------------------------------ the Start scene, crowded ports on the line
\* the queue of n passengers a port of this type has generated, their
\* destinations alternating between the two other types
Queue(type, n) ==
  LET others == SelectSeq(PortTypes, LAMBDA t : t # type)
  IN [k \in 1..n |-> [destinationType |-> others[((k - 1) % 2) + 1]]]

InitCrowd ==
  /\ tiles = addTilesAroundPort(
               addTile(initializePorts([tiles |-> <<>>, ports |-> <<>>], 1).tiles,
                       2 * gridSize, 0, DefaultColor, FALSE),
               laterPort)
  /\ \E n \in 0..MaxLoad : \E second \in {Queue(PortTypes[2], 0), Queue(PortTypes[2], MaxLoad)} :
       scenePorts =
         [initializePorts([tiles |-> <<>>, ports |-> <<>>], 1).ports @@
            (laterPort :> Port(PortTypes[1]))
          EXCEPT ![firstPorts[1]].passengers = Queue(PortTypes[1], n),
                 ![firstPorts[2]].passengers = second]
  /\ ports = <<firstPorts[1], laterPort, firstPorts[2]>>
  /\ last = NoCall
  /\ lineObs = NoObs
  /\ maxBoats = defaultMaxBoats
  /\ boats = <<>>
  /\ hist = [unforced |-> {}]
  /\ score = 0
  /\ isGameOver = FALSE
  /\ gameTime = 0

NextCrowd ==
  \/ PlaceBoat
  \/ \E gen \in Generations :
       /\ gen # <<>> => Generated < MaxPassengers
       /\ Tick(0, gen, NoSite, PortTypes[1])
  \/ Return

SpecCrowd == InitCrowd /\ [][NextCrowd]_vars

\* ------------------------------------------------ the scene until game over
MaxClock == 46000

passengerSpawnInterval == 2000

nextPortInterval == 30000

\* the frame lengths update(elapsed) is called with, shorter than the spawn
\* interval
Frames == {passengerSpawnInterval \div 2, (3 * passengerSpawnInterval) \div 4}

\* the scene left alone but for the strait and the line, one spawn short of
\* full queues at the first ports: the clock stands at as many spawn
\* intervals as they hold passengers, and the port that spawned when the port
\* timer ran out holds what it has generated since
InitGame ==
  /\ tiles = addTilesAroundPort(
               addTile(initializePorts([tiles |-> <<>>, ports |-> <<>>], 1).tiles,
                       2 * gridSize, 0, DefaultColor, FALSE),
               laterPort)
  /\ gameTime = (portMaxCapacity - 1) * passengerSpawnInterval
  /\ scenePorts =
       [initializePorts([tiles |-> <<>>, ports |-> <<>>], 1).ports @@
          (laterPort :> Port(PortTypes[1]))
        EXCEPT ![firstPorts[1]].passengers = Queue(PortTypes[1], portMaxCapacity - 1),
               ![firstPorts[2]].passengers = Queue(PortTypes[2], portMaxCapacity - 1),
               ![laterPort].passengers =
                  Queue(PortTypes[1], (gameTime - nextPortInterval) \div passengerSpawnInterval)]
  /\ ports = <<firstPorts[1], firstPorts[2]>>
  /\ last = NoCall
  /\ lineObs = NoObs
  /\ maxBoats = defaultMaxBoats
  /\ boats = <<>>
  /\ hist = [unforced |-> {}]
  /\ score = 0
  /\ isGameOver = FALSE

\* what the ports generate in a frame: nothing, or a passenger at one of the
\* first two ports for the type of the other
Spawns == { <<>>, <<firstPorts[1], PortTypes[2]>>, <<firstPorts[2], PortTypes[1]>> }

\* processInput() after game over: "if (this.isGameOver) return;"
ProcessInputOver ==
  /\ last = NoCall
  /\ isGameOver
  /\ last' = [op |-> "processInput"]
  /\ UNCHANGED <<tiles, ports, lineObs, maxBoats, boats, hist, score, scenePorts,
                 isGameOver, gameTime>>

\* update(elapsed) after game over: "if (this.isGameOver) return this;"
UpdateOver(elapsed) ==
  /\ last = NoCall
  /\ isGameOver
  /\ last' = [op |-> "update", elapsed |-> elapsed]
  /\ UNCHANGED <<tiles, ports, lineObs, maxBoats, boats, hist, score, scenePorts,
                 isGameOver, gameTime>>

NextGame ==
  \/ \E c \in Cells : PlaceTile(c)
  \/ \E c \in Cells : ClearTile(c)
  \/ PlaceBoat
  \/ \E elapsed \in Frames : \E gen \in Spawns :
       /\ gameTime + elapsed <= MaxClock
       /\ Tick(elapsed, gen, NoSite, PortTypes[1])
  \/ ProcessInputOver
  \/ \E elapsed \in Frames : UpdateOver(elapsed)
  \/ Return

SpecGame == InitGame /\ [][NextGame]_vars

\* --------------------------------------- one Boat, short of its last waypoint
MaxGap == 7

\* a boat on its way to the last waypoint of its path, gap world units
\* short of it on the last segment (position and pathIndex are public fields)
approaching(b, gap) ==
  LET n == Len(b.path)
      to == b.path[n]
      from == b.path[n - 1]
      ux == IF to.x > from.x THEN 1 ELSE IF to.x < from.x THEN -1 ELSE 0
      uy == IF to.y > from.y THEN 1 ELSE IF to.y < from.y THEN -1 ELSE 0
  IN [b EXCEPT !.position = [x |-> to.x - gap * ux, y |-> to.y - gap * uy],
               !.pathIndex = n - 1]

InitSnap ==
  /\ tiles = dredge(harbour(<<>>, Stations), Channel)
  /\ ports = <<>>
  /\ last = NoCall
  /\ lineObs = NoObs
  /\ maxBoats = defaultMaxBoats
  /\ \E startPort \in Stations : \E endPort \in Stations \ {startPort} : \E gap \in 0..MaxGap :
       boats = <<approaching(Boat(startPort, endPort, dredge(harbour(<<>>, Stations), Channel)), gap)>>
  /\ hist = NoHist
  /\ score = 0
  /\ isGameOver = FALSE
  /\ gameTime = 0
  /\ scenePorts = NoPorts

NextSnap ==
  \/ \E i \in 1..Len(boats) : Update(i)
  \/ Return

SpecSnap == InitSnap /\ [][NextSnap]_vars

\* the host ticks every boat on every frame: an update that stays possible
\* is made, and a call that was made returns
NextTick ==
  \/ \E c \in Channel : NetAdd(c)
  \/ \E c \in Channel : NetRemove(c)
  \/ \E startPort \in Stations, endPort \in Stations : NewBoat(startPort, endPort)
  \/ \E i \in 1..Len(boats) : Update(i)
  \/ \E i \in 1..Len(boats) : ForcePathUpdate(i)
  \/ Return

\* an update call can be made: no call is pending and there is a boat
TickEnabled == last = NoCall /\ boats # <<>>

TickAny == \E i \in 1..Len(boats) : Update(i)

\* weak fairness of the tick, its enabling condition written out
TickFair == []<>(~TickEnabled) \/ []<><<TickAny>>_vars

SpecBoatFair ==
  /\ InitHarbour
  /\ [][NextTick]_vars
  /\ TickFair
  /\ WF_vars(Return)

\* --------------------------------- one Boat of a line, ticked to its end
NextVoyage ==
  \/ \E i \in 1..Len(boats) : Update(i)
  \/ Return

\* Start.update ticks every boat on every frame; no edit comes between
SpecVoyage ==
  /\ InitCycle
  /\ [][NextVoyage]_vars
  /\ TickFair
  /\ WF_vars(Return)

\* ================================================================ claims
Abs(n) == IF n < 0 THEN -n ELSE n

KeyOf(point) == <<point.x, point.y>>

Conns(ts, k) == Range(ts[k].connections)

\* hop distance in the connection graph, by growing the set of tiles within
\* d hops of s; -1 when e is in no such set
RECURSIVE HopsFrom(_, _, _, _, _)
HopsFrom(ts, frontier, seen, e, d) ==
  IF e \in frontier THEN d
  ELSE LET next == (UNION {Conns(ts, k) : k \in frontier} \cap DOMAIN ts) \ seen
       IN IF next = {} THEN -1 ELSE HopsFrom(ts, next, seen \cup next, e, d + 1)

ShortestHops(ts, s, e) == HopsFrom(ts, {s}, {s}, e, 0)

IsCall(op) == last.op = op
CallStep(op) == last = NoCall /\ last'.op = op

QueryStart == <<last.startX, last.startY>>
QueryEnd == <<last.endX, last.endY>>

\* C1: between two existing tiles, findPath returns a path whose hop count is
\* the shortest hop count of the connection graph when the end is reachable
\* from the start, and null when it is not.
C1_ShortestHopCount ==
  (IsCall("findPath") /\ QueryStart \in DOMAIN tiles /\ QueryEnd \in DOMAIN tiles) =>
    LET d == ShortestHops(tiles, QueryStart, QueryEnd)
    IN IF d = -1
         THEN last.ret = Null
         ELSE last.ret.found /\ Len(last.ret.path) - 1 = d

\* a two-hop answer across a full square: two shortest routes tie
C1_Witness ==
  /\ IsCall("findPath")
  /\ last.ret.found
  /\ Len(last.ret.path) = 3
  /\ Cardinality({k \in DOMAIN tiles :
                    QueryStart \in Conns(tiles, k) /\ QueryEnd \in Conns(tiles, k)}) = 2

\* C2: every key in a tile's connection set is an existing tile whose
\* connection set contains that tile.
C2_ConnectionSymmetry ==
  \A a \in DOMAIN tiles : \A b \in Conns(tiles, a) :
    b \in DOMAIN tiles /\ a \in Conns(tiles, b)

\* after a failed removeTile on a network that has connections
C2_Witness ==
  /\ IsCall("removeTile")
  /\ ~last.ret
  /\ \E a \in DOMAIN tiles : tiles[a].connections # <<>>

\* C3: a connection joins two tiles exactly one grid cell apart in one of
\* the four cardinal directions.
C3_CardinalNeighboursOnly ==
  \A a \in DOMAIN tiles : \A b \in Conns(tiles, a) :
    \/ Abs(a[1] - b[1]) = gridSize /\ a[2] = b[2]
    \/ a[1] = b[1] /\ Abs(a[2] - b[2]) = gridSize

\* two connected tiles, with a diagonal pair and a pair two cells apart present
C3_Witness ==
  /\ \E a \in DOMAIN tiles : tiles[a].connections # <<>>
  /\ \E a, b \in DOMAIN tiles :
       Abs(a[1] - b[1]) = gridSize /\ Abs(a[2] - b[2]) = gridSize
  /\ \E a, b \in DOMAIN tiles : Abs(a[1] - b[1]) = 2 * gridSize /\ a[2] = b[2]

\* C4: removeTile on a port tile or on a coordinate without a tile returns
\* false and leaves the tiles map as it was.
C4_RemoveRejected ==
  [][ (CallStep("removeTile") /\
       (<<last'.x, last'.y>> \notin DOMAIN tiles \/ tiles[<<last'.x, last'.y>>].isPortTile))
      => (last'.ret = FALSE /\ tiles' = tiles) ]_vars

\* a removeTile on a port tile that has a neighbour was refused
C4_Witness ==
  /\ IsCall("removeTile")
  /\ ~last.ret
  /\ <<last.x, last.y>> \in DOMAIN tiles
  /\ tiles[<<last.x, last.y>>].isPortTile
  /\ tiles[<<last.x, last.y>>].connections # <<>>

\* C5: removeTile on an existing non-port tile returns true, deletes that
\* tile and its key from every connection set, and changes nothing else.
C5_RemoveEffect ==
  [][ (CallStep("removeTile") /\ <<last'.x, last'.y>> \in DOMAIN tiles /\
       ~tiles[<<last'.x, last'.y>>].isPortTile)
      => LET key == <<last'.x, last'.y>>
         IN /\ last'.ret = TRUE
            /\ DOMAIN tiles' = (DOMAIN tiles) \ {key}
            /\ \A k \in DOMAIN tiles' :
                 /\ key \notin Conns(tiles', k)
                 /\ tiles'[k].isPortTile = tiles[k].isPortTile
                 /\ tiles'[k].color = tiles[k].color
                 /\ tiles'[k].x = tiles[k].x /\ tiles'[k].y = tiles[k].y
                 /\ tiles'[k].connections =
                      SelectSeq(tiles[k].connections, LAMBDA e : e # key) ]_vars

\* a successful removeTile of a tile that had two neighbours, which remain
C5_Witness ==
  /\ IsCall("removeTile")
  /\ last.ret
  /\ <<last.x, last.y>> \notin DOMAIN tiles
  /\ Cardinality({k \in DOMAIN tiles :
                    Abs(k[1] - last.x) + Abs(k[2] - last.y) = gridSize}) >= 2

\* C6: addTile on an occupied coordinate changes nothing, adding the same
\* tile twice is the same as adding it once, and no step changes the
\* isPortTile flag or the colour of a tile that stays.
C6_AddExistingNoOp ==
  [][ /\ (CallStep("addTile") /\ <<last'.x, last'.y>> \in DOMAIN tiles) => tiles' = tiles
      /\ CallStep("addTile") =>
           addTile(tiles', last'.x, last'.y, last'.color, last'.isPortTile) = tiles'
      /\ \A k \in (DOMAIN tiles) \cap (DOMAIN tiles') :
           /\ tiles'[k].isPortTile = tiles[k].isPortTile
           /\ tiles'[k].color = tiles[k].color ]_vars

\* an addTile on an occupied coordinate, called with the other flag and colour
C6_Witness ==
  /\ IsCall("addTile")
  /\ <<last.x, last.y>> \in DOMAIN tiles
  /\ tiles[<<last.x, last.y>>].isPortTile # last.isPortTile
  /\ tiles[<<last.x, last.y>>].color # last.color
  /\ tiles[<<last.x, last.y>>].connections # <<>>

\* C7: findPath with a start or an end that is no tile returns null, and
\* areConnected is then false; the query leaves the tiles map alone.
C7_MissingEndpointNull ==
  /\ (IsCall("findPath") /\ (QueryStart \notin DOMAIN tiles \/ QueryEnd \notin DOMAIN tiles))
       => (last.ret = Null /\ last.connected = FALSE)
  /\ \A s \in Coords, e \in Coords :
       (s \notin DOMAIN tiles \/ e \notin DOMAIN tiles)
         => ~areConnected(tiles, s[1], s[2], e[1], e[2])

\* a query from a missing coordinate to itself, on a network that has tiles
C7_Witness ==
  /\ IsCall("findPath")
  /\ QueryStart = QueryEnd
  /\ QueryStart \notin DOMAIN tiles
  /\ DOMAIN tiles # {}

\* C8: a non-null findPath result starts at the start, ends at the end, visits
\* existing tiles only, steps along connections and repeats no tile; from an
\* existing tile to itself it is the one-point path.
C8_WellFormedPath ==
  (IsCall("findPath") /\ last.ret.found) =>
    LET p == last.ret.path IN
    /\ Len(p) >= 1
    /\ KeyOf(p[1]) = QueryStart
    /\ KeyOf(p[Len(p)]) = QueryEnd
    /\ \A i \in 1..Len(p) : KeyOf(p[i]) \in DOMAIN tiles
    /\ \A i \in 1..(Len(p) - 1) : KeyOf(p[i + 1]) \in Conns(tiles, KeyOf(p[i]))
    /\ \A i, j \in 1..Len(p) : i # j => p[i] # p[j]
    /\ QueryStart = QueryEnd => p = <<[x |-> last.startX, y |-> last.startY]>>

\* a three-hop path was returned
C8_Witness ==
  /\ IsCall("findPath")
  /\ last.ret.found
  /\ Len(last.ret.path) = 4

\* the validity predicate of a stop list over a network
ValidLine(ts, ps) ==
  /\ Len(ps) >= 2
  /\ \A i \in 1..(Len(ps) - 1) : areConnected(ts, ps[i][1], ps[i][2], ps[i + 1][1], ps[i + 1][2])
  /\ Len(ps) >= 3 => areConnected(ts, ps[Len(ps)][1], ps[Len(ps)][2], ps[1][1], ps[1][2])

\* C9: isValid() is true exactly when the line has at least 2 stops, every
\* consecutive pair is connected and, with 3 or more stops, the last stop is
\* connected to the first; with fewer than 2 stops it is false.
C9_IsValidIffConnected ==
  /\ isValid(tiles, ports) <=> ValidLine(tiles, ports)
  /\ Len(ports) < 2 => ~isValid(tiles, ports)
  /\ lineObs.now => (lineObs.ret <=> ValidLine(tiles, ports))

\* isValid() answered true on a three-stop line
C9_Witness ==
  /\ lineObs.now
  /\ lineObs.ret
  /\ Len(ports) = 3

\* a consecutive pair of stops (the wrap-around pair included) that the
\* connection graph of ts does not join
SomePairCut(ts, ps) ==
  \E i \in 1..Len(ps) :
    LET a == ps[i]
        b == ps[(i % Len(ps)) + 1]
    IN a \in DOMAIN ts /\ b \in DOMAIN ts /\ ShortestHops(ts, a, b) = -1

\* C10: every isValid() answer is the validity of the line over the network
\* as it is at the call; a tile removal that cuts two consecutive stops of a
\* valid line apart makes isValid() false, and adding that tile again makes
\* it true, with no change of the stop list.
C10_IsValidLive ==
  /\ [](lineObs.now => (lineObs.ret <=> ValidLine(tiles, ports)))
  /\ [][ (/\ ports' = ports
          /\ isValid(tiles, ports)
          /\ DOMAIN tiles' # DOMAIN tiles
          /\ DOMAIN tiles' \subseteq DOMAIN tiles
          /\ SomePairCut(tiles', ports))
         => /\ ~isValid(tiles', ports')
            /\ \A k \in (DOMAIN tiles) \ (DOMAIN tiles') :
                 isValid(addTile(tiles', k[1], k[2], DefaultColor, FALSE), ports') ]_vars

\* three isValid() answers on one unchanged stop list: true, false, true
C10_Witness ==
  /\ lineObs.now
  /\ lineObs.hasPrev /\ lineObs.hasPrev2
  /\ lineObs.prev2 /\ ~lineObs.prev /\ lineObs.ret

\* C14: after any addPort / removeLastPort calls no two adjacent stops are the
\* same station; addPort(s) leaves the list alone when s is the last stop and
\* otherwise appends s, also when s occurs earlier; removeLastPort removes and
\* returns the last stop, or returns nothing and changes nothing when empty.
NoAdjacentDuplicate(ps) == \A i \in 1..(Len(ps) - 1) : ps[i] # ps[i + 1]

C14_StopListEdits ==
  [][ /\ NoAdjacentDuplicate(ports')
      /\ CallStep("addPort") =>
            ports' = IF ports # <<>> /\ ports[Len(ports)] = last'.arg
                       THEN ports
                       ELSE ports \o <<last'.arg>>
      /\ CallStep("removeLastPort") =>
            IF ports = <<>>
              THEN ports' = <<>> /\ ~last'.ret.found
              ELSE /\ last'.ret.found
                   /\ last'.ret.port = ports[Len(ports)]
                   /\ ports = ports' \o <<last'.ret.port>> ]_vars

\* a station already on the line, not as the last stop, was appended again
C14_Witness ==
  /\ IsCall("addPort")
  /\ Len(ports) = 3
  /\ ports[1] = ports[3]
  /\ last.arg = ports[3]
  /\ last.before = SubSeq(ports, 1, 2)

\* C15: getNextPort(currentPort) returns the stop that follows currentPort in
\* the stop list, the stop at index 0 after the last index, and null when
\* currentPort is not on the line; it modifies nothing of the line.
C15_NextStop ==
  [][ CallStep("getNextPort") =>
        /\ UNCHANGED <<ports, boats, maxBoats, tiles, score, scenePorts, isGameOver, gameTime>>
        /\ IF last'.arg \in Range(ports)
             THEN /\ last'.ret.found
                  /\ \E i \in 1..Len(ports) :
                       /\ ports[i] = last'.arg
                       /\ last'.ret.port = ports[IF i = Len(ports) THEN 1 ELSE i + 1]
             ELSE last'.ret = NoPort ]_vars

\* asked for the stop after the last one of a three-stop line: the first
C15_Witness ==
  /\ IsCall("getNextPort")
  /\ Len(ports) = 3
  /\ Cardinality(Range(ports)) = 3
  /\ last.arg = ports[3]
  /\ last.ret = SomePort(ports[1])

\* C11: while the capacity is not changed the number of boats never exceeds
\* it, however often spawnBoat is called; a spawnBoat call made with the
\* count at or above the capacity leaves the boats unchanged.
C11_SpawnWithinCapacity ==
  [][ /\ (maxBoats' = maxBoats /\ Len(boats) <= maxBoats) => Len(boats') <= maxBoats'
      /\ (CallStep("spawnBoat") /\ Len(boats) >= maxBoats) => boats' = boats ]_vars

\* spawnBoat was called on a valid line that already ran its full fleet
C11_Witness ==
  /\ IsCall("spawnBoat")
  /\ isValid(tiles, ports)
  /\ maxBoats > 0
  /\ last.before = maxBoats
  /\ Len(boats) = maxBoats

\* C12: spawnBoat adds a boat only when the line is valid at the call; on a
\* line whose isValid() is false, also one with two or more stops that are
\* not connected, the boats are unchanged.
C12_SpawnOnlyIfValid ==
  [][ (CallStep("spawnBoat") /\ ~isValid(tiles, ports)) => boats' = boats ]_vars

\* C13: spawnBoat with fewer than 2 stops changes nothing; with at least 2
\* stops and the count below capacity it adds exactly one boat, at stop[0],
\* from stop[0] to stop[1], linked to the line, and leaves the other boats
\* and the stop list unchanged.
C13_SpawnEffect ==
  [][ CallStep("spawnBoat") =>
        /\ UNCHANGED <<ports, maxBoats, tiles, score, scenePorts, isGameOver, gameTime>>
        /\ Len(ports) < 2 => boats' = boats
        /\ (Len(ports) >= 2 /\ Len(boats) < maxBoats) =>
             /\ Len(boats') = Len(boats) + 1
             /\ SubSeq(boats', 1, Len(boats)) = boats
             /\ LET b == boats'[Len(boats')]
                IN /\ b.position = getPosition(ports[1])
                   /\ b.startPort = ports[1]
                   /\ b.endPort = ports[2]
                   /\ b.transitLine ]_vars

\* a second boat was spawned next to a different, older one
C13_Witness ==
  /\ IsCall("spawnBoat")
  /\ last.before = 1
  /\ Len(boats) = 2
  /\ boats[1] # boats[2]
  /\ boats[2].startPort = ports[1]
  /\ boats[2].endPort = ports[2]

\* C17: setMaxBoats changes only the capacity, the boats and the stops stay
\* as they are even when the new capacity is below the number of boats;
\* afterwards no boat is added while the count is not below the capacity.
C17_SetMaxBoatsFrame ==
  [][ /\ CallStep("setMaxBoats") => UNCHANGED <<boats, ports, tiles, score, scenePorts, isGameOver, gameTime>>
      /\ Len(boats') > Len(boats) => Len(boats) < maxBoats ]_vars

\* spawnBoat was called, to no effect, on a line lowered below its fleet
C17_Witness ==
  /\ IsCall("spawnBoat")
  /\ Len(ports) >= 2
  /\ Len(boats) > maxBoats
  /\ last.before = Len(boats)

\* the boat an update call was made on, before and after the call
Ticked == boats'[last'.boat]
TickedBefore == boats[last'.boat]

\* the route between a boat's stations in the network as it is now
RouteOf(b) ==
  findPath(tiles, getPosition(b.startPort).x, getPosition(b.startPort).y,
                  getPosition(b.endPort).x, getPosition(b.endPort).y)

\* C18: 0 <= pathIndex <= path length for every boat in every state reached
\* by the constructor, update, forcePathUpdate and swapDestination under
\* network edits; update on a boat with pathIndex = path length that is not
\* awaiting a path leaves position, path and pathIndex unchanged.
C18_PathIndexInRange ==
  [][ /\ \A i \in 1..Len(boats') :
           0 <= boats'[i].pathIndex /\ boats'[i].pathIndex <= Len(boats'[i].path)
      /\ (/\ CallStep("update")
          /\ TickedBefore.pathIndex = Len(TickedBefore.path)
          /\ ~TickedBefore.needsNewPath)
           => /\ Ticked.position = TickedBefore.position
              /\ Ticked.path = TickedBefore.path
              /\ Ticked.pathIndex = TickedBefore.pathIndex ]_vars

\* a boat that travelled its whole path was updated again
C18_Witness ==
  /\ IsCall("update")
  /\ last.before = boats[last.boat]
  /\ ~last.before.needsNewPath
  /\ Len(last.before.path) >= 3
  /\ last.before.pathIndex = Len(last.before.path)
  /\ last.before.position = getPosition(last.before.endPort)

\* C19: an update call on a boat awaiting a path, made while no path exists
\* between its stations, leaves position, path, pathIndex and passengers
\* unchanged and the boat still awaiting a path.
C19_NoMoveWithoutPath ==
  [][ (CallStep("update") /\ TickedBefore.needsNewPath /\ ~RouteOf(TickedBefore).found)
        => /\ Ticked.position = TickedBefore.position
           /\ Ticked.path = TickedBefore.path
           /\ Ticked.pathIndex = TickedBefore.pathIndex
           /\ Ticked.passengers = TickedBefore.passengers
           /\ Ticked.needsNewPath ]_vars

\* a loaded boat that lost its route under way, waypoints still ahead, was
\* updated and stayed where it was
C19_Witness ==
  /\ IsCall("update")
  /\ last.before = boats[last.boat]
  /\ last.before.needsNewPath
  /\ ~RouteOf(last.before).found
  /\ last.before.passengers # <<>>
  /\ last.before.pathIndex < Len(last.before.path)
  /\ last.before.position # getPosition(last.before.startPort)

\* C20 as stated: an update call on a boat awaiting a path, made while the
\* network connects its stations, clears the flag and installs a
\* start-to-end path with pathIndex 0.
C20_RetryInstallsAtZero ==
  [][ (CallStep("update") /\ TickedBefore.needsNewPath /\ RouteOf(TickedBefore).found)
        => /\ ~Ticked.needsNewPath
           /\ Ticked.path = RouteOf(TickedBefore).path
           /\ Ticked.pathIndex = 0 ]_vars

\* the first boat's stations are connected / the first boat has a route
FirstBoatConnected == boats # <<>> /\ RouteOf(boats[1]).found
FirstBoatRouted == boats # <<>> /\ ~boats[1].needsNewPath

\* squared distance from a boat to a point
Dist2(b, pt) ==
  (pt.x - b.position.x) * (pt.x - b.position.x) + (pt.y - b.position.y) * (pt.y - b.position.y)

\* C20 amended: such a call clears the flag and installs the start-to-end
\* path, restarted at index 0 and then advanced by the movement of the same
\* call: pathIndex is 1 afterwards when the boat was within one step of the
\* first waypoint, else 0; and a boat whose stations become connected for
\* good is eventually, and from then on, not awaiting a path.
C20_RetryInstallsAndMoves ==
  /\ [][ (CallStep("update") /\ TickedBefore.needsNewPath /\ RouteOf(TickedBefore).found)
          => /\ ~Ticked.needsNewPath
             /\ Ticked.path = RouteOf(TickedBefore).path
             /\ Ticked.path[1] = getPosition(TickedBefore.startPort)
             /\ Ticked.path[Len(Ticked.path)] = getPosition(TickedBefore.endPort)
             /\ Ticked.pathIndex =
                  IF Dist2(TickedBefore, Ticked.path[1]) < speed * speed THEN 1 ELSE 0 ]_vars
  /\ (<>[]FirstBoatConnected => <>[]FirstBoatRouted)

\* a boat waiting at its start station got its route and, in the same call,
\* passed the first waypoint
C20_Witness ==
  /\ IsCall("update")
  /\ last.before.needsNewPath
  /\ last.before.position = getPosition(last.before.startPort)
  /\ ~boats[last.boat].needsNewPath
  /\ boats[last.boat].pathIndex = 1
  /\ Len(boats[last.boat].path) >= 3

\* C16: on a connected line, a boat whose every arrival is followed by
\* swapDestination heads for the stops in list order, cyclically: after k
\* swaps its end station is stop[(k + 1) mod n], so every entry of the stop
\* list is its end station again and again, also on a line that lists a
\* station twice.
C16_CyclicTargets ==
  \A i \in 1..Len(boats) :
    boats[i].endPort = ports[((hist.leg + 1) % Len(ports)) + 1]

\* C22: the passengers aboard never exceed maxCapacity (10) under any
\* loadPassengers / unloadPassengers calls; loadPassengers(list) boards the
\* first min(|list|, capacity - aboard) of the list, in order, after those
\* aboard, and returns that number.
C22_LoadWithinCapacity ==
  [][ /\ \A i \in 1..Len(boats') : Len(boats'[i].passengers) <= 10
      /\ CallStep("loadPassengers") =>
           LET room == 10 - Len(TickedBefore.passengers)
               n == IF Len(last'.arg) <= room THEN Len(last'.arg) ELSE room
           IN /\ last'.ret = n
              /\ Len(Ticked.passengers) = Len(TickedBefore.passengers) + n
              /\ \A k \in 1..Len(TickedBefore.passengers) :
                    Ticked.passengers[k] = TickedBefore.passengers[k]
              /\ \A k \in 1..n :
                    Ticked.passengers[Len(TickedBefore.passengers) + k] = last'.arg[k] ]_vars

\* 15 passengers were offered to an empty boat: 10 boarded, 10 reported
C22_Witness ==
  /\ IsCall("loadPassengers")
  /\ Len(last.arg) = 15
  /\ last.ret = 10
  /\ boats[last.boat].passengers = SubSeq(last.arg, 1, 10)

\* C23: unloadPassengers returns all passengers in boarding order, leaves
\* none aboard and changes nothing else of the boat; loading the returned
\* list straight back gives the boat as it was.
C23_UnloadRoundTrip ==
  [][ CallStep("unloadPassengers") =>
        /\ last'.ret = TickedBefore.passengers
        /\ Ticked = [TickedBefore EXCEPT !.passengers = <<>>]
        /\ loadPassengers(Ticked, last'.ret) = TickedBefore ]_vars

\* a boat with passengers of different destinations, boarded in two loads,
\* was unloaded
C23_Witness ==
  /\ IsCall("unloadPassengers")
  /\ Len(last.ret) >= 4
  /\ last.ret[1].destinationType = last.ret[4].destinationType
  /\ last.ret[3].destinationType = last.ret[4].destinationType
  /\ boats[last.boat].passengers = <<>>

\* the last waypoint of a boat's path
FinalWaypoint(b) == b.path[Len(b.path)]

\* C24: a boat heading for its last waypoint and one tick's travel (speed)
\* or less away from it is, after one update call, at that waypoint with
\* isAtDestination() true.
C24_ArrivalSnap ==
  [][ (/\ CallStep("update")
       /\ ~TickedBefore.needsNewPath
       /\ TickedBefore.pathIndex = Len(TickedBefore.path) - 1
       /\ Dist2(TickedBefore, FinalWaypoint(TickedBefore)) <= speed * speed)
        => /\ Ticked.position = FinalWaypoint(TickedBefore)
           /\ Ticked.pathIndex >= Len(Ticked.path) ]_vars

\* what updatePath made of boat b, given as the boat c: a route that exists
\* now is installed from index 0, else path and index are kept and the boat
\* awaits a path
Recomputed(b, c) ==
  IF RouteOf(c).found
    THEN c.path = RouteOf(c).path /\ c.pathIndex = 0 /\ ~c.needsNewPath
    ELSE c.path = b.path /\ c.pathIndex = b.pathIndex /\ c.needsNewPath

\* C25: swapDestination makes the old end station the new start station;
\* the new end is the stop the line returns for the old end when the boat
\* has a line and the lookup succeeds, and the old start otherwise; the
\* path is then recomputed, position and passengers stay.
C25_SwapDestination ==
  [][ CallStep("swapDestination") =>
        LET nextPort == getNextPort(ports, TickedBefore.endPort)
        IN /\ Ticked.startPort = TickedBefore.endPort
           /\ Ticked.endPort = IF TickedBefore.transitLine /\ nextPort.found
                                 THEN nextPort.port
                                 ELSE TickedBefore.startPort
           /\ Recomputed(TickedBefore, Ticked)
           /\ Ticked.position = TickedBefore.position
           /\ Ticked.passengers = TickedBefore.passengers
           /\ Ticked.transitLine = TickedBefore.transitLine ]_vars

\* a loaded boat of a line whose end station is no longer a stop of the
\* line was re-targeted: it turned back to where it came from
C25_Witness ==
  /\ IsCall("swapDestination")
  /\ last.before.transitLine
  /\ last.before.passengers # <<>>
  /\ ports # <<>>
  /\ ~getNextPort(ports, last.before.endPort).found
  /\ boats[last.boat].startPort = last.before.endPort
  /\ boats[last.boat].endPort = last.before.startPort
  /\ boats[last.boat].endPort # boats[last.boat].startPort

\* C28: forcePathUpdate leaves position, passengers and both stations
\* alone; a route found replaces the path, puts the index at 0 and clears
\* the needs-path flag, no route keeps path and index and sets the flag;
\* the position of a boat changes in update() only.
C28_ForcePathUpdateFrame ==
  [][ /\ CallStep("forcePathUpdate") =>
           /\ Ticked.position = TickedBefore.position
           /\ Ticked.passengers = TickedBefore.passengers
           /\ Ticked.startPort = TickedBefore.startPort
           /\ Ticked.endPort = TickedBefore.endPort
           /\ Recomputed(TickedBefore, Ticked)
      /\ (/\ boats # <<>>
          /\ boats' # <<>>
          /\ boats'[1].position # boats[1].position) => CallStep("update") ]_vars

\* a loaded boat under way, past its first waypoint, had its path forced
\* while no route existed: it stays where it is, awaiting a path, with the
\* path and index it had
C28_Witness ==
  /\ IsCall("forcePathUpdate")
  /\ last.before.pathIndex > 0
  /\ ~last.before.needsNewPath
  /\ last.before.passengers # <<>>
  /\ last.before.position # getPosition(last.before.startPort)
  /\ boats[last.boat].needsNewPath
  /\ boats[last.boat].path = last.before.path
  /\ boats[last.boat].pathIndex = last.before.pathIndex

NoRepeat(seq) == \A i, j \in 1..Len(seq) : seq[i] = seq[j] => i = j

Searching == last.op = "search"

\* C30: findPath terminates for every pair of coordinates on every network:
\* every key is put into the visited set and into the queue at most once,
\* the search takes no more keys from the queue than there are tiles, and
\* a search that has begun returns, with the answer of findPath.
C30_SearchTerminates ==
  /\ [](Searching =>
          /\ NoRepeat(last.enqueued)
          /\ NoRepeat(last.dequeued)
          /\ Range(last.enqueued) = last.st.visited
          /\ Len(last.dequeued) <= Cardinality(DOMAIN tiles))
  /\ [](Searching /\ last.done =>
          last.ret = findPath(tiles, parseKey(last.startKey).x, parseKey(last.startKey).y,
                              parseKey(last.endKey).x, parseKey(last.endKey).y))
  /\ (Searching ~> (Searching /\ last.done))

\* a failed search between two tiles of a network of four tiles: it took
\* three keys from the queue, the whole part reachable from its start
C30_Witness ==
  /\ Searching
  /\ last.done
  /\ ~last.ret.found
  /\ Cardinality(DOMAIN tiles) = 4
  /\ Len(last.dequeued) = 3
  /\ Len(last.enqueued) = 3

\* boat b holds a path of the network as it is: every waypoint a tile, every
\* hop a connection, from the tile of its start port to that of its end port
PathHolds(b) ==
  /\ b.path # <<>>
  /\ \A k \in 1..Len(b.path) : KeyOf(b.path[k]) \in DOMAIN tiles
  /\ \A k \in 1..(Len(b.path) - 1) :
       KeyOf(b.path[k + 1]) \in Conns(tiles, KeyOf(b.path[k]))
  /\ b.path[1] = getPosition(b.startPort)
  /\ b.path[Len(b.path)] = getPosition(b.endPort)

\* C26: under the scene's loop of tile placement, tile removal, port
\* spawning and ticks, every boat that is not awaiting a path holds a path
\* of the current network from its start port to its end port.
C26_NoStalePath ==
  \A i \in 1..Len(boats) : ~boats[i].needsNewPath => PathHolds(boats[i])

\* a boat under way on its path, tiles added to the network since any
\* forcePathUpdate reached it
C26_Witness ==
  /\ boats # <<>>
  /\ ~boats[1].needsNewPath
  /\ boats[1].pathIndex > 1
  /\ hist.unforced = {1}
  /\ DOMAIN scenePorts # Range(firstPorts)

\* C27: every boat updated in a tick has had forcePathUpdate applied to it
\* since the network was last edited, by tile placement, tile removal or
\* the tiles of a new port.
C27_ForcedBeforeUpdate == IsCall("tick") => last.unforced = {}

Arrived == boats[1]
ArrivedAt == scenePorts[boats[1].endPort]
StayAboard == nonMatchingPassengers(Arrived.passengers, ArrivedAt.type)
Embarked == SubSeq(ArrivedAt.passengers, 1, Len(ArrivedAt.passengers)
                                             - Len(scenePorts'[Arrived.endPort].passengers))

\* C29: the arrival handling of a tick adds to the score the number of
\* passengers aboard whose destination type is the type of the port arrived
\* at; those leave the boat, all others are aboard again in the order they
\* had, ahead of the passengers taken from the port, when the boat is
\* re-targeted.
C29_ArrivalHandling ==
  [][ (CallStep("tick") /\ 1 \in last'.arrived) =>
        /\ score' = score + Len(matchingPassengers(Arrived.passengers, ArrivedAt.type))
        /\ boats'[1].passengers = StayAboard \o Embarked
        /\ Len(StayAboard) + Len(matchingPassengers(Arrived.passengers, ArrivedAt.type))
             = Len(Arrived.passengers)
        /\ boats'[1].startPort = Arrived.endPort ]_vars

\* a boat arrived with passengers for the type of the port and, behind and
\* ahead of them, passengers for another; passengers of the port went aboard
C29_Witness ==
  /\ IsCall("tick")
  /\ 1 \in last.arrived
  /\ score > 0
  /\ Len(last.before[1].passengers) >= 3
  /\ \E k \in 2..(Len(last.before[1].passengers) - 1) :
       /\ last.before[1].passengers[k].destinationType = getType(scenePorts, last.before[1].endPort)
       /\ last.before[1].passengers[k - 1].destinationType # getType(scenePorts, last.before[1].endPort)
       /\ last.before[1].passengers[k + 1].destinationType # getType(scenePorts, last.before[1].endPort)
  /\ Len(boats[1].passengers) >= 2
  /\ boats[1].startPort = last.before[1].endPort

Between(a, lo, hi) == (lo <= a /\ a <= hi) \/ (hi <= a /\ a <= lo)

\* pt lies on the straight segment from waypoint p to waypoint q
OnSegment(pt, p, q) ==
  \/ pt.x = p.x /\ pt.x = q.x /\ Between(pt.y, p.y, q.y)
  \/ pt.y = p.y /\ pt.y = q.y /\ Between(pt.x, p.x, q.x)

\* the four points one tile away from waypoint w
Beside(w) ==
  { [x |-> w.x + d[1] * gridSize, y |-> w.y + d[2] * gridSize] :
      d \in { <<1, 0>>, <<-1, 0>>, <<0, 1>>, <<0, -1>> } }

\* the step from one position to the other runs on a segment that joins a
\* waypoint of b, the one it heads for or the one it has just reached, to a
\* point one tile beside it
AlongPath(from, to, b) ==
  \E t \in {b.pathIndex, b.pathIndex + 1} \cap (1..Len(b.path)) :
    \E n \in Beside(b.path[t]) :
      /\ OnSegment(from, n, b.path[t])
      /\ OnSegment(to, n, b.path[t])

\* C33: every movement step a tick makes with a boat that has not arrived
\* runs along the straight segment between the waypoint the boat heads for
\* and a tile position adjacent to it.
C33_MovesAlongNetwork ==
  [][ CallStep("tick") =>
        \A i \in 1..Len(boats) :
          (i \notin last'.arrived /\ boats'[i].position # boats[i].position) =>
             AlongPath(boats[i].position, boats'[i].position, boats'[i]) ]_vars

Joined(a, b) == areConnected(tiles, a[1], a[2], b[1], b[2])

\* C34: on the tiles of every network, areConnected is reflexive, symmetric
\* with findPath giving the same hop count in both directions, and
\* transitive: so for the two tiles of every query made and every third tile.
C34_ReachabilityEquivalence ==
  (IsCall("findPath") /\ QueryStart \in DOMAIN tiles /\ QueryEnd \in DOMAIN tiles) =>
     /\ Joined(QueryStart, QueryStart)
     /\ last.connected = Joined(QueryEnd, QueryStart)
     /\ Len(last.ret.path)
          = Len(findPath(tiles, QueryEnd[1], QueryEnd[2], QueryStart[1], QueryStart[2]).path)
     /\ \A c \in DOMAIN tiles :
          (last.connected /\ Joined(QueryEnd, c)) => Joined(QueryStart, c)

\* findPath has answered with a path over three tiles while a fourth tile
\* is joined to none of them
C34_Witness ==
  /\ IsCall("findPath")
  /\ last.ret.found
  /\ Len(last.ret.path) = 3
  /\ Cardinality(DOMAIN tiles) = 4
  /\ \E d \in DOMAIN tiles : \A a \in DOMAIN tiles \ {d} : ~Joined(a, d)

Target(b) == b.path[b.pathIndex + 1]

\* the boat of the line holds a path
HoldsPath == \A i \in 1..Len(boats) : ~boats[i].needsNewPath

\* the boat of the line is at its end port, isAtDestination() true
AtEndPort ==
  \A i \in 1..Len(boats) :
    /\ isAtDestination(boats[i])
    /\ boats[i].position = getPosition(boats[i].endPort)

\* C35: on a network that is not edited, each update() of a boat under way
\* either takes it one speed step closer to its waypoint or puts it on the
\* waypoint and advances pathIndex by one; pathIndex never decreases; and a
\* boat holding a path comes to be at its end port with isAtDestination()
\* true.
C35_ReachesDestination ==
  /\ [][ (CallStep("update") /\ ~TickedBefore.needsNewPath
                             /\ ~isAtDestination(TickedBefore)) =>
           \/ /\ Ticked.pathIndex = TickedBefore.pathIndex
              /\ Dist2(Ticked, TickedBefore.position) = speed * speed
              /\ Dist2(Ticked, Target(TickedBefore))
                   < Dist2(TickedBefore, Target(TickedBefore))
           \/ /\ Ticked.pathIndex = TickedBefore.pathIndex + 1
              /\ Ticked.position = Target(TickedBefore) ]_vars
  /\ [][ \A i \in 1..Len(boats) : boats'[i].pathIndex >= boats[i].pathIndex ]_vars
  /\ HoldsPath ~> AtEndPort

\* a boat that has made its last step stands at its end port, at the end
\* of a path of more than two waypoints
C35_Witness ==
  /\ IsCall("update")
  /\ ~isAtDestination(last.before)
  /\ isAtDestination(boats[last.boat])
  /\ Len(boats[last.boat].path) > 2
  /\ boats[last.boat].position = getPosition(boats[last.boat].endPort)
  /\ boats[last.boat].position # getPosition(boats[last.boat].startPort)

WaitingAtPorts ==
  Sum([port \in DOMAIN scenePorts |-> Len(scenePorts[port].passengers)], DOMAIN scenePorts)

Aboard == Sum([i \in 1..Len(boats) |-> Len(boats[i].passengers)], 1..Len(boats))

WaitingAfter ==
  Sum([port \in DOMAIN scenePorts' |-> Len(scenePorts'[port].passengers)], DOMAIN scenePorts')

AboardAfter == Sum([i \in 1..Len(boats') |-> Len(boats'[i].passengers)], 1..Len(boats'))

\* C32: the passengers waiting at ports, aboard boats and delivered number
\* the same after every step but for the one a port generates in a tick;
\* what boat placement takes from the port is aboard the new boat, and what
\* a tick takes off the boats is in the score or aboard again.
C32_PassengersConserved ==
  [][ /\ WaitingAfter + AboardAfter + score'
         = WaitingAtPorts + Aboard + score
             + (IF CallStep("tick") /\ last'.generated # <<>> THEN 1 ELSE 0)
      /\ score' >= score
      /\ (boats = <<>> /\ boats' # <<>>) =>
           /\ score' = score
           /\ AboardAfter = WaitingAtPorts - WaitingAfter ]_vars

\* a boat with passengers aboard arrived at a port where more were waiting
\* than it had room for: some went aboard, some stayed at the port
C32_Witness ==
  /\ IsCall("tick")
  /\ 1 \in last.arrived
  /\ last.before[1].passengers # <<>>
  /\ Len(boats[1].passengers) = boatCapacity
  /\ scenePorts[boats[1].startPort].passengers # <<>>
  /\ score > 0

\* C36: once isGameOver is set it stays set, and no step that starts in a
\* game-over state (a processInput() or update() call, whatever its input)
\* changes the score, the network, the line's stops and boat limit, the
\* boats, the ports with their queues and timers, or the game clock.
C36_GameOverAbsorbing ==
  [][isGameOver =>
       /\ isGameOver'
       /\ score' = score
       /\ tiles' = tiles
       /\ ports' = ports
       /\ maxBoats' = maxBoats
       /\ boats' = boats
       /\ scenePorts' = scenePorts
       /\ gameTime' = gameTime]_vars

C36_Witness ==
  /\ isGameOver
  /\ IsCall("update")
  /\ boats # <<>>
  /\ \E p \in DOMAIN scenePorts : hasOverflowed(scenePorts[p])

====
